---- MODULE Spec2Model ----
(***************************************************************************)
(* DoubleKeyTable (src/double_key_table.py): a table keyed by (key1, key2) *)
(* made of a linear-probing top level whose slots hold (key1, nested       *)
(* LinearProbeTable).  Keys are strings, modelled as sequences of          *)
(* character codes; None is the empty tuple.                               *)
(***************************************************************************)
EXTENDS Integers, Sequences, FiniteSets, TLC

VARIABLES ctor, TABLE_SIZES, internal_sizes, size_index, array, count, shadow, last,
          record, added, raised,
          iht, ihtShadow, ihtLast, ihtDeleted, route, collected, walk

\* the state of the ComputerManager beside its DoubleKeyTable
managerVars == <<record, added, raised>>

\* one InfiniteHashTable, what its callers stored and did not delete, the
\* last call and its outcome, and whether a delete has returned
ihtVars == <<iht, ihtShadow, ihtLast, ihtDeleted>>

\* one Route, the list add_all_computers returned for it, and the call of
\* follow_path on it: the virus, its computers, curr, following_nodes and
\* whether the call is in its loop or has returned
routeVars == <<route, collected, walk>>

vars == <<ctor, TABLE_SIZES, internal_sizes, size_index, array, count, shadow, last,
          managerVars, ihtVars, routeVars>>

----------------------------------------------------------------------------
(* Bounds of the model. *)

\* size_index grows by one on every resize attempt, so it is capped
MaxSizeIndex == 2

\* the pairs the callers use: ("A","a"), ("A","c"), ("B","a"), ("C","a"), ("F","a")
Pairs == {<<(<<65>>), (<<97>>)>>, <<(<<65>>), (<<99>>)>>, <<(<<66>>), (<<97>>)>>,
          <<(<<67>>), (<<97>>)>>, <<(<<70>>), (<<97>>)>>}
K1 == {p[1] : p \in Pairs}
K2 == {p[2] : p \in Pairs}
V == {1, 2}

\* constructor arguments (sizes, internal_sizes); <<>> is an omitted internal_sizes.
\* In these top-level schedules every capacity is more than twice the one before.
Schedules == {<<(<<3>>), (<<2>>)>>, <<(<<2, 5, 11>>), (<<>>)>>}
\* an ascending top-level schedule that grows by less than a factor of two
DenseSchedules == {<<(<<2, 3, 7>>), (<<2>>)>>}

----------------------------------------------------------------------------
(* Values. *)

None == <<>>
NoExc == "None"

\* the class attribute TABLE_SIZES, the built-in schedule
CLASS_TABLE_SIZES ==
    <<5, 13, 29, 53, 97, 193, 389, 769, 1543, 3079, 6151, 12289, 24593, 49157,
      98317, 196613, 393241, 786433, 1572869>>

HASH_BASE == 31
HASH_A == 31417

Slots(n) == 0 .. (n - 1)
EmptyArray(n) == [i \in Slots(n) |-> None]
ArrayLen(arr) == Cardinality(DOMAIN arr)

RECURSIVE HashLoop(_, _, _, _, _)
HashLoop(key, i, value, a, size) ==
    IF i > Len(key) THEN value
    ELSE HashLoop(key, i + 1, (key[i] + a * value) % size,
                  (a * HASH_BASE) % (size - 1), size)

hash1(key, table_size) == HashLoop(key, 1, 0, HASH_A, table_size)

hash2(key, sub_table) == HashLoop(key, 1, 0, HASH_A, ArrayLen(sub_table.array))

----------------------------------------------------------------------------
(* The nested single-key LinearProbeTable (data_structures.hash_table),    *)
(* after section 6 of the specification.  A table is                        *)
(* [array, count, size_index]; an entry is <<key, value>>.                  *)

NewLPT(sizes) == [array |-> EmptyArray(sizes[1]), count |-> 0, size_index |-> 0]

LPT_is_empty(t) == t.count = 0

RECURSIVE LPT_probe_from(_, _, _, _, _)
LPT_probe_from(arr, key, is_insert, pos, n) ==
    IF n = 0
    THEN [exc |-> IF is_insert THEN "FullError" ELSE "KeyError", pos |-> 0]
    ELSE IF arr[pos] = None
    THEN IF is_insert THEN [exc |-> NoExc, pos |-> pos]
         ELSE [exc |-> "KeyError", pos |-> 0]
    ELSE IF arr[pos][1] = key
    THEN [exc |-> NoExc, pos |-> pos]
    ELSE LPT_probe_from(arr, key, is_insert, (pos + 1) % ArrayLen(arr), n - 1)

LPT_linear_probe(t, key, is_insert) ==
    LPT_probe_from(t.array, key, is_insert, hash2(key, t), ArrayLen(t.array))

\* re-insertion of the entries old[from..] of the old array into arr
RECURSIVE LPT_reinsert(_, _, _)
LPT_reinsert(arr, old, from) ==
    IF from >= ArrayLen(old) THEN arr
    ELSE IF old[from] = None THEN LPT_reinsert(arr, old, from + 1)
    ELSE LET p == LPT_probe_from(arr, old[from][1], TRUE,
                                 HashLoop(old[from][1], 1, 0, HASH_A, ArrayLen(arr)),
                                 ArrayLen(arr))
         IN LPT_reinsert([arr EXCEPT ![p.pos] = old[from]], old, from + 1)

LPT_rehash(t, sizes) ==
    IF t.size_index + 1 >= Len(sizes) THEN t
    ELSE [array |-> LPT_reinsert(EmptyArray(sizes[t.size_index + 2]), t.array, 0),
          count |-> t.count,
          size_index |-> t.size_index + 1]

LPT_setitem(t, key, data, sizes) ==
    LET p == LPT_linear_probe(t, key, TRUE) IN
    IF p.exc # NoExc THEN [exc |-> p.exc, t |-> t]
    ELSE LET t1 == [t EXCEPT !.array[p.pos] = <<key, data>>,
                             !.count = IF t.array[p.pos] = None THEN @ + 1 ELSE @]
         IN [exc |-> NoExc,
             t |-> IF 2 * t1.count > ArrayLen(t1.array) THEN LPT_rehash(t1, sizes) ELSE t1]

RECURSIVE LPT_repair(_, _, _)
LPT_repair(arr, pos, fuel) ==
    IF fuel = 0 \/ arr[pos] = None THEN arr
    ELSE LET e == arr[pos]
             a1 == [arr EXCEPT ![pos] = None]
             p == LPT_probe_from(a1, e[1], TRUE,
                                 HashLoop(e[1], 1, 0, HASH_A, ArrayLen(arr)), ArrayLen(arr))
         IN LPT_repair([a1 EXCEPT ![p.pos] = e], (pos + 1) % ArrayLen(arr), fuel - 1)

LPT_delitem(t, key) ==
    LET p == LPT_linear_probe(t, key, FALSE) IN
    IF p.exc # NoExc THEN [exc |-> p.exc, t |-> t]
    ELSE LET n == ArrayLen(t.array)
             a1 == [t.array EXCEPT ![p.pos] = None]
         IN [exc |-> NoExc,
             t |-> [t EXCEPT !.array = LPT_repair(a1, (p.pos + 1) % n, n * (n + 1)),
                             !.count = @ - 1]]

RECURSIVE LPT_entries(_, _)
LPT_entries(arr, from) ==
    IF from >= ArrayLen(arr) THEN <<>>
    ELSE IF arr[from] = None THEN LPT_entries(arr, from + 1)
    ELSE <<arr[from]>> \o LPT_entries(arr, from + 1)

LPT_keys(t) == LET es == LPT_entries(t.array, 0) IN [i \in 1 .. Len(es) |-> es[i][1]]
LPT_values(t) == LET es == LPT_entries(t.array, 0) IN [i \in 1 .. Len(es) |-> es[i][2]]

----------------------------------------------------------------------------
(* DoubleKeyTable.  The top level is (array, count, size_index); a slot is *)
(* None or <<key1, nested table>>.                                          *)

table_size(arr) == ArrayLen(arr)

\* _linear_probe that makes the nested table at an empty slot on lookups too
RECURSIVE linear_probe_from_create(_, _, _, _, _, _, _)
linear_probe_from_create(arr, isizes, key1, key2, is_insert, pos, n) ==
    IF n = 0
    THEN [exc |-> IF is_insert THEN "FullError" ELSE "KeyError",
          scanned |-> table_size(arr), pos1 |-> 0, pos2 |-> 0, array |-> arr]
    ELSE IF arr[pos] = None
    THEN IF key2 = None
         THEN [exc |-> IF is_insert THEN NoExc ELSE "KeyError",
               scanned |-> table_size(arr) - n + 1, pos1 |-> pos, pos2 |-> 0, array |-> arr]
         ELSE LET hash_table == NewLPT(isizes)
                  lpt == LPT_linear_probe(hash_table, key2, is_insert)
              IN [exc |-> lpt.exc, scanned |-> table_size(arr) - n + 1, pos1 |-> pos, pos2 |-> lpt.pos,
                  array |-> [arr EXCEPT ![pos] = <<key1, hash_table>>]]
    ELSE IF arr[pos][1] = key1
    THEN IF key2 = None
         THEN [exc |-> NoExc, scanned |-> table_size(arr) - n + 1, pos1 |-> pos, pos2 |-> 0, array |-> arr]
         ELSE LET lpt == LPT_linear_probe(arr[pos][2], key2, is_insert)
              IN [exc |-> lpt.exc, scanned |-> table_size(arr) - n + 1, pos1 |-> pos, pos2 |-> lpt.pos, array |-> arr]
    ELSE linear_probe_from_create(arr, isizes, key1, key2, is_insert,
                                  (pos + 1) % ArrayLen(arr), n - 1)

\* _linear_probe that makes the nested table at an empty slot before it looks
\* at is_insert and key2
RECURSIVE linear_probe_from_eager(_, _, _, _, _, _, _)
linear_probe_from_eager(arr, isizes, key1, key2, is_insert, pos, n) ==
    IF n = 0
    THEN [exc |-> IF is_insert THEN "FullError" ELSE "KeyError",
          scanned |-> table_size(arr), pos1 |-> 0, pos2 |-> 0, array |-> arr]
    ELSE IF arr[pos] = None
    THEN LET hash_table == NewLPT(isizes)
             arr1 == [arr EXCEPT ![pos] = <<key1, hash_table>>]
         IN IF ~is_insert
            THEN [exc |-> "KeyError", scanned |-> table_size(arr) - n + 1,
                  pos1 |-> 0, pos2 |-> 0, array |-> arr1]
            ELSE IF key2 = None
            THEN [exc |-> NoExc, scanned |-> table_size(arr) - n + 1,
                  pos1 |-> pos, pos2 |-> 0, array |-> arr1]
            ELSE LET lpt == LPT_linear_probe(hash_table, key2, is_insert)
                 IN [exc |-> lpt.exc, scanned |-> table_size(arr) - n + 1,
                     pos1 |-> pos, pos2 |-> lpt.pos, array |-> arr1]
    ELSE IF arr[pos][1] = key1
    THEN IF key2 = None
         THEN [exc |-> NoExc, scanned |-> table_size(arr) - n + 1, pos1 |-> pos, pos2 |-> 0, array |-> arr]
         ELSE LET lpt == LPT_linear_probe(arr[pos][2], key2, is_insert)
              IN [exc |-> lpt.exc, scanned |-> table_size(arr) - n + 1, pos1 |-> pos, pos2 |-> lpt.pos, array |-> arr]
    ELSE linear_probe_from_eager(arr, isizes, key1, key2, is_insert,
                                 (pos + 1) % table_size(arr), n - 1)

\* the loop of _linear_probe, at position pos with n iterations left; scanned
\* is the number of slots the loop has looked at when it returns or raises
RECURSIVE linear_probe_from(_, _, _, _, _, _, _)
linear_probe_from(arr, isizes, key1, key2, is_insert, pos, n) ==
    IF n = 0
    THEN [exc |-> IF is_insert THEN "FullError" ELSE "KeyError",
          scanned |-> table_size(arr), pos1 |-> 0, pos2 |-> 0, array |-> arr]
    ELSE IF arr[pos] = None
    THEN IF ~is_insert
         THEN [exc |-> "KeyError", scanned |-> table_size(arr) - n + 1, pos1 |-> 0, pos2 |-> 0, array |-> arr]
         ELSE IF key2 = None
         THEN [exc |-> NoExc, scanned |-> table_size(arr) - n + 1, pos1 |-> pos, pos2 |-> 0, array |-> arr]
         ELSE LET hash_table == NewLPT(isizes)
                  lpt == LPT_linear_probe(hash_table, key2, is_insert)
              IN [exc |-> lpt.exc, scanned |-> table_size(arr) - n + 1, pos1 |-> pos, pos2 |-> lpt.pos,
                  array |-> [arr EXCEPT ![pos] = <<key1, hash_table>>]]
    ELSE IF arr[pos][1] = key1
    THEN IF key2 = None
         THEN [exc |-> NoExc, scanned |-> table_size(arr) - n + 1, pos1 |-> pos, pos2 |-> 0, array |-> arr]
         ELSE LET lpt == LPT_linear_probe(arr[pos][2], key2, is_insert)
              IN [exc |-> lpt.exc, scanned |-> table_size(arr) - n + 1, pos1 |-> pos, pos2 |-> lpt.pos, array |-> arr]
    ELSE linear_probe_from(arr, isizes, key1, key2, is_insert,
                           (pos + 1) % table_size(arr), n - 1)

linear_probe(arr, isizes, key1, key2, is_insert) ==
    linear_probe_from(arr, isizes, key1, key2, is_insert,
                      hash1(key1, table_size(arr)), table_size(arr))

\* _rehash that copies every entry to the index it had in the old array
RECURSIVE rehash_loop_copy(_, _, _, _)
rehash_loop_copy(arr, isizes, old_array, from) ==
    IF from >= ArrayLen(old_array) THEN [exc |-> NoExc, array |-> arr]
    ELSE IF old_array[from] = None THEN rehash_loop_copy(arr, isizes, old_array, from + 1)
    ELSE rehash_loop_copy([arr EXCEPT ![from] = old_array[from]],
                          isizes, old_array, from + 1)

\* _rehash that re-seats every first key with a newly made nested table
RECURSIVE rehash_loop_fresh(_, _, _, _)
rehash_loop_fresh(arr, isizes, old_array, from) ==
    IF from >= ArrayLen(old_array) THEN [exc |-> NoExc, array |-> arr]
    ELSE IF old_array[from] = None THEN rehash_loop_fresh(arr, isizes, old_array, from + 1)
    ELSE LET p == linear_probe(arr, isizes, old_array[from][1], None, TRUE)
         IN IF p.exc # NoExc THEN [exc |-> p.exc, array |-> arr]
            ELSE rehash_loop_fresh([arr EXCEPT ![p.pos1] = <<old_array[from][1], NewLPT(isizes)>>],
                                   isizes, old_array, from + 1)

\* the loop of _rehash over old_array[from..], filling the new array arr
RECURSIVE rehash_loop(_, _, _, _)
rehash_loop(arr, isizes, old_array, from) ==
    IF from >= ArrayLen(old_array) THEN [exc |-> NoExc, array |-> arr]
    ELSE IF old_array[from] = None THEN rehash_loop(arr, isizes, old_array, from + 1)
    ELSE LET p == linear_probe(arr, isizes, old_array[from][1], None, TRUE)
         IN IF p.exc # NoExc THEN [exc |-> p.exc, array |-> arr]
            ELSE rehash_loop([arr EXCEPT ![p.pos1] = old_array[from]],
                             isizes, old_array, from + 1)

\* _rehash that steps the size index down instead of up; a negative index
\* counts from the end of the schedule
rehash_back(sizes, isizes, arr, cnt, si) ==
    IF si - 1 < 0 - Len(sizes)
    THEN [exc |-> "IndexError", array |-> arr, count |-> cnt, size_index |-> si - 1]
    ELSE LET idx == IF si - 1 < 0 THEN Len(sizes) + si ELSE si
             r == rehash_loop(EmptyArray(sizes[idx]), isizes, arr, 0)
         IN [exc |-> r.exc, array |-> r.array, count |-> 0, size_index |-> si - 1]

rehash(sizes, isizes, arr, cnt, si) ==
    IF si + 1 >= Len(sizes)
    THEN [exc |-> NoExc, array |-> arr, count |-> cnt, size_index |-> si + 1]
    ELSE LET r == rehash_loop(EmptyArray(sizes[si + 2]), isizes, arr, 0)
         IN [exc |-> r.exc, array |-> r.array, count |-> 0, size_index |-> si + 1]

getitem(arr, isizes, key1, key2) ==
    LET p == linear_probe(arr, isizes, key1, key2, FALSE) IN
    IF p.exc # NoExc THEN [exc |-> p.exc, ret |-> <<>>, array |-> p.array]
    ELSE [exc |-> NoExc, ret |-> <<p.array[p.pos1][2].array[p.pos2][2]>>, array |-> p.array]

contains(arr, isizes, key1, key2) ==
    LET r == getitem(arr, isizes, key1, key2)
    IN [exc |-> IF r.exc = "KeyError" THEN NoExc ELSE r.exc,
        found |-> r.exc = NoExc, array |-> r.array]

len(cnt) == cnt

\* __setitem__ that counts every pair it stores
setitem_store_everycount(isizes, arr, cnt, key1, key2, data) ==
    LET p == linear_probe(arr, isizes, key1, key2, TRUE) IN
    IF p.exc # NoExc
    THEN [exc |-> p.exc, array |-> p.array, count |-> cnt]
    ELSE LET s == LPT_setitem(p.array[p.pos1][2], key2, data, isizes)
         IN [exc |-> s.exc, array |-> [p.array EXCEPT ![p.pos1] = <<key1, s.t>>],
             count |-> cnt + 1]

\* __setitem__ that counts a new first key before it probes for a slot
setitem_store_precount(isizes, arr, cnt, key1, key2, data) ==
    LET cnt1 == IF \A i \in DOMAIN arr : arr[i] = None \/ arr[i][1] # key1
                THEN cnt + 1 ELSE cnt
        p == linear_probe(arr, isizes, key1, key2, TRUE)
    IN IF p.exc # NoExc
       THEN [exc |-> p.exc, array |-> p.array, count |-> cnt1]
       ELSE LET s == LPT_setitem(p.array[p.pos1][2], key2, data, isizes)
            IN [exc |-> s.exc, array |-> [p.array EXCEPT ![p.pos1] = <<key1, s.t>>],
                count |-> cnt1]

\* __setitem__ up to the resize check: the probe, the count and the store
setitem_store(isizes, arr, cnt, key1, key2, data) ==
    LET p == linear_probe(arr, isizes, key1, key2, TRUE) IN
    IF p.exc # NoExc
    THEN [exc |-> p.exc, array |-> p.array, count |-> cnt]
    ELSE LET sub_table == p.array[p.pos1][2]
             cnt1 == IF LPT_is_empty(sub_table) THEN cnt + 1 ELSE cnt
             s == LPT_setitem(sub_table, key2, data, isizes)
         IN [exc |-> s.exc, array |-> [p.array EXCEPT ![p.pos1] = <<key1, s.t>>],
             count |-> cnt1]

setitem(sizes, isizes, arr, cnt, si, key1, key2, data) ==
    LET s == setitem_store(isizes, arr, cnt, key1, key2, data) IN
    IF s.exc # NoExc
    THEN [exc |-> s.exc, array |-> s.array, count |-> s.count, size_index |-> si]
    ELSE IF 2 * len(s.count) > table_size(s.array)
    THEN rehash(sizes, isizes, s.array, s.count, si)
    ELSE [exc |-> NoExc, array |-> s.array, count |-> s.count, size_index |-> si]

\* cluster repair that copies an entry to its new slot and leaves it in the
\* old one as well
RECURSIVE repair_loop_copy(_, _, _, _)
repair_loop_copy(arr, isizes, curr_pos, fuel) ==
    IF arr[curr_pos] = None THEN [exc |-> NoExc, array |-> arr]
    ELSE IF fuel = 0 THEN [exc |-> "Diverged", array |-> arr]
    ELSE LET k == arr[curr_pos][1]
             lpt == arr[curr_pos][2]
             arr1 == [arr EXCEPT ![curr_pos] = None]
             newpos == linear_probe(arr1, isizes, k, None, TRUE)
         IN IF newpos.exc # NoExc THEN [exc |-> newpos.exc, array |-> arr]
            ELSE repair_loop_copy([arr EXCEPT ![newpos.pos1] = <<k, lpt>>], isizes,
                                  (curr_pos + 1) % table_size(arr), fuel - 1)

\* cluster repair that closes the gap the way a list does: every entry after
\* the vacated slot moves down one slot, whatever lies between
repair_loop_shiftall(arr, isizes, curr_pos, fuel) ==
    [exc |-> NoExc,
     array |-> [i \in DOMAIN arr |->
                   IF i = table_size(arr) - 1 THEN None
                   ELSE IF i + 1 >= curr_pos /\ curr_pos > 0 THEN arr[i + 1]
                   ELSE arr[i]]]

\* __delitem__ without cluster repair
repair_loop_none(arr, isizes, curr_pos, fuel) == [exc |-> NoExc, array |-> arr]

\* cluster repair that re-seats only the entry right after the vacated slot
repair_loop_once(arr, isizes, curr_pos, fuel) ==
    IF arr[curr_pos] = None THEN [exc |-> NoExc, array |-> arr]
    ELSE LET k == arr[curr_pos][1]
             lpt == arr[curr_pos][2]
             arr1 == [arr EXCEPT ![curr_pos] = None]
             newpos == linear_probe(arr1, isizes, k, None, TRUE)
         IN [exc |-> newpos.exc, array |-> [arr1 EXCEPT ![newpos.pos1] = <<k, lpt>>]]

\* cluster repair that does not clear the slot of an entry before re-seating it
RECURSIVE repair_loop_noclear(_, _, _, _)
repair_loop_noclear(arr, isizes, curr_pos, fuel) ==
    IF arr[curr_pos] = None THEN [exc |-> NoExc, array |-> arr]
    ELSE IF fuel = 0 THEN [exc |-> "Diverged", array |-> arr]
    ELSE LET k == arr[curr_pos][1]
             lpt == arr[curr_pos][2]
             newpos == linear_probe(arr, isizes, k, None, TRUE)
         IN IF newpos.exc # NoExc THEN [exc |-> newpos.exc, array |-> arr]
            ELSE repair_loop_noclear([arr EXCEPT ![newpos.pos1] = <<k, lpt>>], isizes,
                                     (curr_pos + 1) % table_size(arr), fuel - 1)

\* cluster repair that stays at the slot it has just re-seated
RECURSIVE repair_loop_noadvance(_, _, _, _)
repair_loop_noadvance(arr, isizes, curr_pos, fuel) ==
    IF arr[curr_pos] = None THEN [exc |-> NoExc, array |-> arr]
    ELSE IF fuel = 0 THEN [exc |-> "Diverged", array |-> arr]
    ELSE LET k == arr[curr_pos][1]
             lpt == arr[curr_pos][2]
             arr1 == [arr EXCEPT ![curr_pos] = None]
             newpos == linear_probe(arr1, isizes, k, None, TRUE)
         IN IF newpos.exc # NoExc THEN [exc |-> newpos.exc, array |-> arr1]
            ELSE repair_loop_noadvance([arr1 EXCEPT ![newpos.pos1] = <<k, lpt>>], isizes,
                                       curr_pos, fuel - 1)

\* the cluster-repair loop of __delitem__, at curr_pos
RECURSIVE repair_loop(_, _, _, _)
repair_loop(arr, isizes, curr_pos, fuel) ==
    IF arr[curr_pos] = None THEN [exc |-> NoExc, array |-> arr]
    ELSE IF fuel = 0 THEN [exc |-> "Diverged", array |-> arr]
    ELSE LET k == arr[curr_pos][1]
             lpt == arr[curr_pos][2]
             arr1 == [arr EXCEPT ![curr_pos] = None]
             newpos == linear_probe(arr1, isizes, k, None, TRUE)
         IN IF newpos.exc # NoExc THEN [exc |-> newpos.exc, array |-> arr1]
            ELSE repair_loop([arr1 EXCEPT ![newpos.pos1] = <<k, lpt>>], isizes,
                             (curr_pos + 1) % table_size(arr), fuel - 1)

RepairFuel(arr) == table_size(arr) * (table_size(arr) + 1)

\* __delitem__ that vacates the slot whether or not the nested table is empty
delitem_vacate(isizes, arr, cnt, key1, key2) ==
    LET p == linear_probe(arr, isizes, key1, key2, FALSE) IN
    IF p.exc # NoExc THEN [exc |-> p.exc, array |-> arr, count |-> cnt]
    ELSE LET d == LPT_delitem(arr[p.pos1][2], key2)
             arr1 == [arr EXCEPT ![p.pos1] = <<key1, d.t>>]
         IN IF d.exc # NoExc THEN [exc |-> d.exc, array |-> arr1, count |-> cnt]
            ELSE LET curr_pos == linear_probe(arr1, isizes, key1, None, FALSE)
                     arr2 == [arr1 EXCEPT ![curr_pos.pos1] = None]
                     r == repair_loop(arr2, isizes, (curr_pos.pos1 + 1) % table_size(arr),
                                      RepairFuel(arr))
                 IN IF curr_pos.exc # NoExc
                    THEN [exc |-> curr_pos.exc, array |-> arr1, count |-> cnt]
                    ELSE [exc |-> r.exc, array |-> r.array, count |-> cnt - 1]

\* __delitem__ that leaves the slot of an emptied nested table in place
delitem_keep(isizes, arr, cnt, key1, key2) ==
    LET p == linear_probe(arr, isizes, key1, key2, FALSE) IN
    IF p.exc # NoExc THEN [exc |-> p.exc, array |-> arr, count |-> cnt]
    ELSE LET d == LPT_delitem(arr[p.pos1][2], key2)
         IN [exc |-> d.exc, array |-> [arr EXCEPT ![p.pos1] = <<key1, d.t>>],
             count |-> cnt]

delitem(isizes, arr, cnt, key1, key2) ==
    LET p == linear_probe(arr, isizes, key1, key2, FALSE) IN
    IF p.exc # NoExc THEN [exc |-> p.exc, array |-> arr, count |-> cnt]
    ELSE LET d == LPT_delitem(arr[p.pos1][2], key2)
             arr1 == [arr EXCEPT ![p.pos1] = <<key1, d.t>>]
         IN IF d.exc # NoExc THEN [exc |-> d.exc, array |-> arr1, count |-> cnt]
            ELSE IF ~LPT_is_empty(d.t)
            THEN [exc |-> NoExc, array |-> arr1, count |-> cnt]
            ELSE LET curr_pos == linear_probe(arr1, isizes, key1, None, FALSE)
                     arr2 == [arr1 EXCEPT ![curr_pos.pos1] = None]
                     r == repair_loop(arr2, isizes, (curr_pos.pos1 + 1) % table_size(arr),
                                      RepairFuel(arr))
                 IN IF curr_pos.exc # NoExc
                    THEN [exc |-> curr_pos.exc, array |-> arr1, count |-> cnt]
                    ELSE [exc |-> r.exc, array |-> r.array, count |-> cnt - 1]

\* keys() whose scan stops one slot short of the end of the array
RECURSIVE keys_scan_short(_, _)
keys_scan_short(arr, x) ==
    IF x >= table_size(arr) - 1 THEN <<>>
    ELSE IF arr[x] # None THEN <<arr[x][1]>> \o keys_scan_short(arr, x + 1)
    ELSE keys_scan_short(arr, x + 1)

\* the loop of keys() with the key omitted, over the slots x, x + 1, ...
RECURSIVE keys_scan(_, _)
keys_scan(arr, x) ==
    IF x >= table_size(arr) THEN <<>>
    ELSE IF arr[x] # None THEN <<arr[x][1]>> \o keys_scan(arr, x + 1)
    ELSE keys_scan(arr, x + 1)

\* keys that asks element 0 of the entry, the first key, for its keys
keys_entry0(arr, isizes, key) ==
    IF key = None THEN [exc |-> NoExc, ret |-> keys_scan(arr, 0), array |-> arr]
    ELSE LET p == linear_probe(arr, isizes, key, None, FALSE) IN
         IF p.exc # NoExc THEN [exc |-> p.exc, ret |-> <<>>, array |-> p.array]
         ELSE [exc |-> "AttributeError", ret |-> <<>>, array |-> p.array]

keys(arr, isizes, key) ==
    IF key = None THEN [exc |-> NoExc, ret |-> keys_scan(arr, 0), array |-> arr]
    ELSE LET p == linear_probe(arr, isizes, key, None, FALSE) IN
         IF p.exc # NoExc THEN [exc |-> p.exc, ret |-> <<>>, array |-> p.array]
         ELSE [exc |-> NoExc, ret |-> LPT_keys(p.array[p.pos1][2]), array |-> p.array]

\* values() that reads, for each first key, the slot at its hash without probing
RECURSIVE values_loop_nohash(_, _, _, _, _)
values_loop_nohash(arr, isizes, ks, i, res) ==
    IF i > Len(ks) THEN [exc |-> NoExc, ret |-> res, array |-> arr]
    ELSE LET h == hash1(ks[i], table_size(arr))
         IN IF arr[h] = None THEN [exc |-> "TypeError", ret |-> <<>>, array |-> arr]
            ELSE values_loop_nohash(arr, isizes, ks, i + 1, res \o LPT_values(arr[h][2]))

\* the loop of values() with the key omitted, at the i-th first key of the
\* list ks that keys() returned, with the values res collected so far
RECURSIVE values_loop(_, _, _, _, _)
values_loop(arr, isizes, ks, i, res) ==
    IF i > Len(ks) THEN [exc |-> NoExc, ret |-> res, array |-> arr]
    ELSE LET p == linear_probe(arr, isizes, ks[i], None, FALSE)
         IN IF p.exc # NoExc THEN [exc |-> p.exc, ret |-> <<>>, array |-> p.array]
            ELSE values_loop(p.array, isizes, ks, i + 1,
                             res \o LPT_values(p.array[p.pos1][2]))

\* values that reads the slot at the hash of the key without probing
values_nohash(arr, isizes, key) ==
    IF key = None
    THEN values_loop(arr, isizes, keys(arr, isizes, None).ret, 1, <<>>)
    ELSE LET h == hash1(key, table_size(arr)) IN
         IF arr[h] = None THEN [exc |-> "KeyError", ret |-> <<>>, array |-> arr]
         ELSE [exc |-> NoExc, ret |-> LPT_values(arr[h][2]), array |-> arr]

values(arr, isizes, key) ==
    IF key = None
    THEN values_loop(arr, isizes, keys(arr, isizes, None).ret, 1, <<>>)
    ELSE LET p == linear_probe(arr, isizes, key, None, FALSE) IN
         IF p.exc # NoExc THEN [exc |-> p.exc, ret |-> <<>>, array |-> p.array]
         ELSE [exc |-> NoExc, ret |-> LPT_values(p.array[p.pos1][2]), array |-> p.array]

\* the loop of iter_keys() with the key omitted, over the slots x, x + 1, ...
RECURSIVE iter_keys_scan(_, _)
iter_keys_scan(arr, x) ==
    IF x >= table_size(arr) THEN <<>>
    ELSE IF arr[x] # None THEN <<arr[x][1]>> \o iter_keys_scan(arr, x + 1)
    ELSE iter_keys_scan(arr, x + 1)

\* iter_keys run to its end: ret is the sequence it yields.  With a key it
\* asks tpl_entry[0], the first key itself, for keys(), which a string does
\* not have.
iter_keys(arr, isizes, key) ==
    IF key = None THEN [exc |-> NoExc, ret |-> iter_keys_scan(arr, 0), array |-> arr]
    ELSE LET p == linear_probe(arr, isizes, key, None, FALSE) IN
         IF p.exc # NoExc THEN [exc |-> p.exc, ret |-> <<>>, array |-> p.array]
         ELSE [exc |-> "AttributeError", ret |-> <<>>, array |-> p.array]

\* the loop of iter_values() with the key omitted, at the i-th first key of ks
RECURSIVE iter_values_loop(_, _, _, _, _)
iter_values_loop(arr, isizes, ks, i, res) ==
    IF i > Len(ks) THEN [exc |-> NoExc, ret |-> res, array |-> arr]
    ELSE LET p == linear_probe(arr, isizes, ks[i], None, FALSE)
         IN IF p.exc # NoExc THEN [exc |-> p.exc, ret |-> res, array |-> p.array]
            ELSE iter_values_loop(p.array, isizes, ks, i + 1,
                                  res \o LPT_values(p.array[p.pos1][2]))

\* iter_values run to its end: ret is the sequence it yields
iter_values(arr, isizes, key) ==
    IF key = None
    THEN iter_values_loop(arr, isizes, keys(arr, isizes, None).ret, 1, <<>>)
    ELSE LET p == linear_probe(arr, isizes, key, None, FALSE) IN
         IF p.exc # NoExc THEN [exc |-> p.exc, ret |-> <<>>, array |-> p.array]
         ELSE [exc |-> NoExc, ret |-> LPT_values(p.array[p.pos1][2]), array |-> p.array]

----------------------------------------------------------------------------
(* InfiniteHashTable: a table of TABLE_SIZE slots per level; a slot is None *)
(* or <<key, value, is_table>>, where is_table says that the value is an    *)
(* InfiniteHashTable (what the code asks isinstance for) and the key then   *)
(* is a prefix followed by "*".  A table is (array, count, level).          *)

TABLE_SIZE == 27

\* the character "*"
STAR == 42

\* the depth of nested __setitem__ calls after which Python gives up, scaled
\* to the model: deeper than any table the keys of the model need
MaxNesting == 6

\* sets are taken while the count of the table is below this
MaxIhtCount == 5

IHT_hash(level, key) ==
    IF level < Len(key) THEN key[level + 1] % (TABLE_SIZE - 1) ELSE TABLE_SIZE - 1

NewIHT(level) ==
    [array |-> [i \in 0 .. TABLE_SIZE - 1 |-> None], count |-> 0, level |-> level]

\* key[:n]
Prefix(key, n) == SubSeq(key, 1, IF Len(key) < n THEN Len(key) ELSE n)

RECURSIVE IHT_store(_, _, _, _)
RECURSIVE IHT_setitem(_, _, _, _)

\* the loop of __setitem__ from the table curr on, with fuel nested calls left
IHT_store(curr, key, value, fuel) ==
    LET position == IHT_hash(curr.level, key)
        entry == curr.array[position]
    IN IF entry = None
       THEN [exc |-> NoExc, t |-> [curr EXCEPT !.array[position] = <<key, value, FALSE>>]]
       ELSE IF ~entry[3]
       THEN IF fuel = 0 THEN [exc |-> "RecursionError", t |-> curr]
            ELSE LET n1 == IHT_setitem(NewIHT(curr.level + 1), entry[1], entry[2], fuel - 1)
                     n2 == IHT_setitem(n1.t, key, value, fuel - 1)
                 IN IF n1.exc # NoExc THEN [exc |-> n1.exc, t |-> curr]
                    ELSE IF n2.exc # NoExc THEN [exc |-> n2.exc, t |-> curr]
                    ELSE [exc |-> NoExc,
                          t |-> [curr EXCEPT !.array[position] =
                                    <<Prefix(key, curr.level + 1) \o <<STAR>>, n2.t, TRUE>>]]
       ELSE LET r == IHT_store(entry[2], key, value, fuel)
            IN IF r.exc # NoExc THEN [exc |-> r.exc, t |-> curr]
               ELSE [exc |-> NoExc,
                     t |-> [curr EXCEPT !.array[position] = <<entry[1], r.t, TRUE>>]]

\* __setitem__ called on the table self: the store and the count of self
IHT_setitem(self, key, value, fuel) ==
    LET r == IHT_store(self, key, value, fuel)
    IN IF r.exc # NoExc THEN r
       ELSE [exc |-> NoExc, t |-> [r.t EXCEPT !.count = @ + 1]]

\* get_location that takes the entry a leaf slot holds for the key asked for
RECURSIVE IHT_get_location_anykey(_, _)
IHT_get_location_anykey(curr, key) ==
    LET position == IHT_hash(curr.level, key)
        entry == curr.array[position]
    IN IF entry = None THEN [exc |-> "KeyError", lst |-> <<>>]
       ELSE IF entry[3]
       THEN LET r == IHT_get_location_anykey(entry[2], key)
            IN IF r.exc # NoExc THEN r
               ELSE [exc |-> NoExc, lst |-> <<position>> \o r.lst]
       ELSE [exc |-> NoExc, lst |-> <<position>>]

RECURSIVE IHT_get_location(_, _)
IHT_get_location(curr, key) ==
    LET position == IHT_hash(curr.level, key)
        entry == curr.array[position]
    IN IF entry = None THEN [exc |-> "KeyError", lst |-> <<>>]
       ELSE IF entry[3]
       THEN LET r == IHT_get_location(entry[2], key)
            IN IF r.exc # NoExc THEN r
               ELSE [exc |-> NoExc, lst |-> <<position>> \o r.lst]
       ELSE IF entry[1] # key THEN [exc |-> "KeyError", lst |-> <<>>]
       ELSE [exc |-> NoExc, lst |-> <<position>>]

\* the value the loop of __getitem__ ends at, following the positions lst
RECURSIVE IHT_follow(_, _)
IHT_follow(curr, lst) ==
    IF Len(lst) = 1 THEN curr.array[lst[1]][2]
    ELSE IHT_follow(curr.array[lst[1]][2], Tail(lst))

IHT_getitem(self, key) ==
    LET l == IHT_get_location(self, key)
    IN IF l.exc # NoExc THEN [exc |-> l.exc, ret |-> None]
       ELSE [exc |-> NoExc, ret |-> <<IHT_follow(self, l.lst)>>]

IHT_contains(self, key) == IHT_getitem(self, key).exc = NoExc

IHT_len(self) == self.count

\* the table reached from self by the positions path
RECURSIVE IHT_table_at(_, _)
IHT_table_at(self, path) ==
    IF path = <<>> THEN self ELSE IHT_table_at(self.array[path[1]][2], Tail(path))

\* self after the assignment array[pos] = entry in the table at path
RECURSIVE IHT_assign(_, _, _, _)
IHT_assign(self, path, pos, entry) ==
    IF path = <<>> THEN [self EXCEPT !.array[pos] = entry]
    ELSE [self EXCEPT !.array[path[1]] =
             <<@[1], IHT_assign(@[2], Tail(path), pos, entry), @[3]>>]

\* the slots of curr whose key does not end in "*"
IHT_plain(curr) ==
    {i \in DOMAIN curr.array :
        curr.array[i] # None /\ curr.array[i][1][Len(curr.array[i][1])] # STAR}

\* the loop of __delitem__ that folds tables back, with curr the table at
\* all_positions[..idx] (idx counted from 0; idx < 0 when curr is self)
RECURSIVE IHT_reform(_, _, _)
IHT_reform(self, all_positions, idx) ==
    IF idx < 0 THEN [exc |-> NoExc, t |-> self]
    ELSE LET curr == IHT_table_at(self, SubSeq(all_positions, 1, idx + 1))
             plain == IHT_plain(curr)
         IN IF Cardinality(plain) <= 1 /\ plain # {}
            THEN LET tpl_entry == curr.array[CHOOSE i \in plain : \A j \in plain : j <= i]
                     t1 == IHT_assign(self, SubSeq(all_positions, 1, idx),
                                      all_positions[idx + 1], None)
                     t2 == [t1 EXCEPT !.count = @ - 1]
                     s == IHT_setitem(t2, tpl_entry[1], tpl_entry[2], MaxNesting)
                 IN IF s.exc # NoExc THEN [exc |-> s.exc, t |-> t2]
                    ELSE IHT_reform(s.t, all_positions, idx - 1)
            ELSE [exc |-> NoExc, t |-> self]

IHT_delitem(self, key) ==
    LET l == IHT_get_location(self, key) IN
    IF l.exc # NoExc THEN [exc |-> l.exc, t |-> self]
    ELSE LET n == Len(l.lst)
             t1 == IHT_assign(self, SubSeq(l.lst, 1, n - 1), l.lst[n], None)
         IN IHT_reform([t1 EXCEPT !.count = @ - 1], l.lst, n - 2)

RECURSIVE IHT_auxiliary_sort_keys(_)
RECURSIVE IHT_sort_scan(_, _, _)

\* the loop of _auxiliary_sort_keys over n slots from start on
IHT_sort_scan(curr, start, n) ==
    IF n = 0 THEN <<>>
    ELSE LET tpl_entry == curr.array[start]
             here == IF tpl_entry # None /\ start # TABLE_SIZE - 1
                     THEN IF \E i \in 1 .. Len(tpl_entry[1]) : tpl_entry[1][i] = STAR
                          THEN IHT_auxiliary_sort_keys(tpl_entry[2])
                          ELSE <<tpl_entry[1]>>
                     ELSE <<>>
         IN here \o IHT_sort_scan(curr, (start + 1) % TABLE_SIZE, n - 1)

IHT_auxiliary_sort_keys(curr) ==
    LET tpl_last == curr.array[TABLE_SIZE - 1]
        first == IF tpl_last # None /\ tpl_last[1][Len(tpl_last[1])] # STAR
                 THEN <<tpl_last[1]>> ELSE <<>>
    IN first \o IHT_sort_scan(curr, 97 % (TABLE_SIZE - 1), TABLE_SIZE)

IHT_sort_keys(self) == IHT_auxiliary_sort_keys(self)

\* the keys of the model: "a", "ab", "ada", "adb", "h"
IhtKeys == {<<97>>, <<97, 98>>, <<97, 100, 97>>, <<97, 100, 98>>, <<104>>}

----------------------------------------------------------------------------
(* The state machine: one DoubleKeyTable and its callers.  shadow is the   *)
(* history of the calls: the value last set for each pair and not deleted  *)
(* since (None when there is none); last is the last call, the exception it   *)
(* raised and what it did to the top level ("resized", "vacated" a slot,   *)
(* "repaired" a cluster by moving an entry, or "none").                    *)

Stored == {p \in Pairs : shadow[p] # None}

\* the occupied top-level slots
Occupied(arr) == {i \in DOMAIN arr : arr[i] # None}
\* the first keys held by the top-level slots
FirstKeys(arr) == {arr[i][1] : i \in Occupied(arr)}
\* some entry other than key1's sits in another slot of new than of old
Moved(old, new, key1) ==
    \E i \in Occupied(old) :
        /\ old[i][1] # key1
        /\ new[i] = None \/ new[i][1] # old[i][1]
\* a capacity larger than the current one remains in the schedule
LargerRemains == \E i \in 1 .. Len(TABLE_SIZES) : TABLE_SIZES[i] > table_size(array)

InitWith(schedules) ==
    /\ ctor \in schedules
    /\ TABLE_SIZES = IF ctor[1] # None THEN ctor[1] ELSE CLASS_TABLE_SIZES
    /\ internal_sizes = IF ctor[2] # None THEN ctor[2] ELSE TABLE_SIZES
    /\ size_index = 0
    /\ array = EmptyArray(TABLE_SIZES[1])
    /\ count = 0
    /\ shadow = [p \in Pairs |-> None]
    /\ last = [op |-> "init", exc |-> NoExc, note |-> "none"]
    /\ record = <<>>
    /\ added = {}
    /\ raised = FALSE
    /\ iht = NewIHT(0)
    /\ ihtShadow = [k \in IhtKeys |-> None]
    /\ ihtLast = [op |-> "init", exc |-> NoExc]
    /\ ihtDeleted = FALSE
    /\ route = None
    /\ collected = None
    /\ walk = None

Init == InitWith(Schedules)

Set(key1, key2, data) ==
    /\ LET r == setitem(TABLE_SIZES, internal_sizes, array, count, size_index,
                        key1, key2, data)
       IN /\ r.size_index <= MaxSizeIndex
          /\ array' = r.array
          /\ count' = r.count
          /\ size_index' = r.size_index
          /\ shadow' = IF r.exc = NoExc THEN [shadow EXCEPT ![<<key1, key2>>] = <<data>>]
                       ELSE shadow
          /\ last' = [op |-> "set", exc |-> r.exc,
                      note |-> IF table_size(r.array) # table_size(array)
                               THEN "resized" ELSE "none"]
    /\ UNCHANGED <<ctor, TABLE_SIZES, internal_sizes>>
    /\ UNCHANGED <<managerVars, ihtVars, routeVars>>

Delete(key1, key2) ==
    /\ LET r == delitem(internal_sizes, array, count, key1, key2)
       IN /\ array' = r.array
          /\ count' = r.count
          /\ shadow' = IF r.exc = NoExc THEN [shadow EXCEPT ![<<key1, key2>>] = None]
                       ELSE shadow
          /\ last' = [op |-> "del", exc |-> r.exc,
                      note |-> IF Moved(array, r.array, key1) THEN "repaired"
                               ELSE IF Occupied(r.array) # Occupied(array) THEN "vacated"
                               ELSE "none"]
    /\ UNCHANGED <<ctor, TABLE_SIZES, internal_sizes, size_index>>
    /\ UNCHANGED <<managerVars, ihtVars, routeVars>>

Get(key1, key2) ==
    /\ LET r == getitem(array, internal_sizes, key1, key2)
       IN /\ array' = r.array
          /\ last' = [op |-> "get", exc |-> r.exc, note |-> "none"]
    /\ UNCHANGED <<ctor, TABLE_SIZES, internal_sizes, size_index, count, shadow>>
    /\ UNCHANGED <<managerVars, ihtVars, routeVars>>

Contains(key1, key2) ==
    /\ LET r == contains(array, internal_sizes, key1, key2)
       IN /\ array' = r.array
          /\ last' = [op |-> "contains", exc |-> r.exc, note |-> "none"]
    /\ UNCHANGED <<ctor, TABLE_SIZES, internal_sizes, size_index, count, shadow>>
    /\ UNCHANGED <<managerVars, ihtVars, routeVars>>

Keys(key) ==
    /\ LET r == keys(array, internal_sizes, key)
       IN /\ array' = r.array
          /\ last' = [op |-> "keys", exc |-> r.exc, note |-> "none"]
    /\ UNCHANGED <<ctor, TABLE_SIZES, internal_sizes, size_index, count, shadow>>
    /\ UNCHANGED <<managerVars, ihtVars, routeVars>>

Values(key) ==
    /\ LET r == values(array, internal_sizes, key)
       IN /\ array' = r.array
          /\ last' = [op |-> "values", exc |-> r.exc, note |-> "none"]
    /\ UNCHANGED <<ctor, TABLE_SIZES, internal_sizes, size_index, count, shadow>>
    /\ UNCHANGED <<managerVars, ihtVars, routeVars>>

IterKeys(key) ==
    /\ LET r == iter_keys(array, internal_sizes, key)
       IN /\ array' = r.array
          /\ last' = [op |-> "iter_keys", exc |-> r.exc, note |-> "none"]
    /\ UNCHANGED <<ctor, TABLE_SIZES, internal_sizes, size_index, count, shadow>>
    /\ UNCHANGED <<managerVars, ihtVars, routeVars>>

IterValues(key) ==
    /\ LET r == iter_values(array, internal_sizes, key)
       IN /\ array' = r.array
          /\ last' = [op |-> "iter_values", exc |-> r.exc, note |-> "none"]
    /\ UNCHANGED <<ctor, TABLE_SIZES, internal_sizes, size_index, count, shadow>>
    /\ UNCHANGED <<managerVars, ihtVars, routeVars>>

Next ==
    \/ \E p \in Pairs, data \in V : Set(p[1], p[2], data)
    \/ \E p \in Pairs : Delete(p[1], p[2])
    \/ \E p \in Pairs : Get(p[1], p[2])
    \/ \E p \in Pairs : Contains(p[1], p[2])
    \/ \E key \in K1 \cup {None} : Keys(key)
    \/ \E key \in K1 \cup {None} : Values(key)
    \/ \E key \in K1 \cup {None} : IterKeys(key)
    \/ \E key \in K1 \cup {None} : IterValues(key)

Spec == Init /\ [][Next]_vars

InitDense == InitWith(DenseSchedules)

SpecDense == InitDense /\ [][Next]_vars

TypeOK ==
    /\ size_index \in 0 .. MaxSizeIndex
    /\ DOMAIN array = Slots(ArrayLen(array))
    /\ last.exc \in {NoExc, "KeyError", "FullError", "AttributeError"}

----------------------------------------------------------------------------
(* ComputerManager: a DoubleKeyTable made with the built-in schedules and   *)
(* keyed by (hacking_difficulty, name), beside a ComputerOrganiser whose    *)
(* record is a sorted list.  A difficulty d is the first key <<d>>: the     *)
(* manager replaces hash1 by x % table_size, which is what hash1 computes  *)
(* for a key of one element.  added is the history of the calls: the       *)
(* computers added and not removed since; raised is whether some call of   *)
(* the manager has raised so far.                                          *)

\* the organiser's record is capped at this many computers
MaxRecord == 3

\* Computer(name, hacking_difficulty, hacked_value, risk_factor), the risk
\* factor in tenths: ("a",3,2,0.2), ("c",3,5,0.3), ("a",8,4,0.8), ("a",4,4,0.1)
Computers ==
    {[name |-> <<97>>, hacking_difficulty |-> 3, hacked_value |-> 2, risk_factor |-> 2],
     [name |-> <<99>>, hacking_difficulty |-> 3, hacked_value |-> 5, risk_factor |-> 3],
     [name |-> <<97>>, hacking_difficulty |-> 8, hacked_value |-> 4, risk_factor |-> 8],
     [name |-> <<97>>, hacking_difficulty |-> 4, hacked_value |-> 4, risk_factor |-> 1]}

\* the difficulties asked for: those of the computers and one no computer has
Difficulties == {c.hacking_difficulty : c \in Computers} \cup {7}

\* the hash1 that ComputerManager.__init__ installs on its table
manager_hash1(x, size) == x % size

\* a < b for strings, as Python compares them
RECURSIVE StrLess(_, _)
StrLess(a, b) ==
    IF b = <<>> THEN FALSE
    ELSE IF a = <<>> THEN TRUE
    ELSE IF Head(a) # Head(b) THEN Head(a) < Head(b)
    ELSE StrLess(Tail(a), Tail(b))

\* key(a) <= key(b) for the organiser's sort key
\* (hacking_difficulty, risk_factor, name)
KeyLessEq(a, b) ==
    \/ a.hacking_difficulty < b.hacking_difficulty
    \/ /\ a.hacking_difficulty = b.hacking_difficulty
       /\ \/ a.risk_factor < b.risk_factor
          \/ a.risk_factor = b.risk_factor /\ ~StrLess(b.name, a.name)

\* the stable merge of two lists sorted by the key
RECURSIVE merge(_, _)
merge(l1, l2) ==
    IF l1 = <<>> THEN l2
    ELSE IF l2 = <<>> THEN l1
    ELSE IF KeyLessEq(Head(l1), Head(l2)) THEN <<Head(l1)>> \o merge(Tail(l1), l2)
    ELSE <<Head(l2)>> \o merge(l1, Tail(l2))

RECURSIVE mergesort(_)
mergesort(l) ==
    IF Len(l) <= 1 THEN l
    ELSE LET mid == Len(l) \div 2
             left == mergesort(SubSeq(l, 1, mid))
             right == mergesort(SubSeq(l, mid + 1, Len(l)))
         IN merge(left, right)

\* ComputerOrganiser.add_computers
add_computers(rec, computers) == merge(rec, mergesort(computers))

\* ComputerOrganiser.remove_computer: list.remove takes out the first element
\* equal to the computer and raises ValueError when there is none
organiser_remove_computer(rec, computer) ==
    IF \A i \in 1 .. Len(rec) : rec[i] # computer
    THEN [exc |-> "ValueError", record |-> rec]
    ELSE LET i == CHOOSE j \in 1 .. Len(rec) :
                      rec[j] = computer /\ \A k \in 1 .. j - 1 : rec[k] # computer
         IN [exc |-> NoExc, record |-> SubSeq(rec, 1, i - 1) \o SubSeq(rec, i + 1, Len(rec))]

add_computer(sizes, isizes, arr, cnt, si, rec, computer) ==
    [record |-> add_computers(rec, <<computer>>)]
        @@ setitem(sizes, isizes, arr, cnt, si,
                   <<computer.hacking_difficulty>>, computer.name, computer)

remove_computer(isizes, arr, cnt, rec, computer) ==
    LET o == organiser_remove_computer(rec, computer) IN
    IF o.exc # NoExc
    THEN [exc |-> o.exc, record |-> rec, array |-> arr, count |-> cnt]
    ELSE [record |-> o.record]
             @@ delitem(isizes, arr, cnt, <<computer.hacking_difficulty>>, computer.name)

\* computers_with_difficulty without the try block around values
computers_with_difficulty_raise(arr, isizes, diff) ==
    LET r == values(arr, isizes, <<diff>>)
    IN [exc |-> r.exc, ret |-> r.ret, array |-> r.array]

computers_with_difficulty(arr, isizes, diff) ==
    LET r == values(arr, isizes, <<diff>>)
    IN [exc |-> NoExc, ret |-> IF r.exc # NoExc THEN <<>> ELSE r.ret, array |-> r.array]

InitManager == InitWith({<<None, None>>})

AddComputer(computer) ==
    /\ Len(record) < MaxRecord
    /\ LET r == add_computer(TABLE_SIZES, internal_sizes, array, count, size_index,
                             record, computer)
       IN /\ record' = r.record
          /\ array' = r.array
          /\ count' = r.count
          /\ size_index' = r.size_index
          /\ added' = IF r.exc = NoExc THEN added \cup {computer} ELSE added
          /\ raised' = (raised \/ r.exc # NoExc)
          /\ last' = [op |-> "add_computer", exc |-> r.exc,
                      note |-> IF table_size(r.array) # table_size(array)
                               THEN "resized" ELSE "none"]
    /\ UNCHANGED <<ctor, TABLE_SIZES, internal_sizes, shadow>>
    /\ UNCHANGED <<ihtVars, routeVars>>

RemoveComputer(computer) ==
    /\ LET r == remove_computer(internal_sizes, array, count, record, computer)
       IN /\ record' = r.record
          /\ array' = r.array
          /\ count' = r.count
          /\ added' = IF r.exc = NoExc THEN added \ {computer} ELSE added
          /\ raised' = (raised \/ r.exc # NoExc)
          /\ last' = [op |-> "remove_computer", exc |-> r.exc, note |-> "none"]
    /\ UNCHANGED <<ctor, TABLE_SIZES, internal_sizes, size_index, shadow>>
    /\ UNCHANGED <<ihtVars, routeVars>>

ComputersWithDifficulty(diff) ==
    /\ LET r == computers_with_difficulty(array, internal_sizes, diff)
       IN /\ array' = r.array
          /\ last' = [op |-> "computers_with_difficulty", exc |-> r.exc,
                      note |-> IF r.ret = <<>> THEN "empty" ELSE "none"]
    /\ UNCHANGED <<ctor, TABLE_SIZES, internal_sizes, size_index, count, shadow>>
    /\ UNCHANGED <<managerVars, ihtVars, routeVars>>

NextManager ==
    \/ \E computer \in Computers : AddComputer(computer)
    \/ \E computer \in Computers : RemoveComputer(computer)
    \/ \E diff \in Difficulties : ComputersWithDifficulty(diff)

SpecManager == InitManager /\ [][NextManager]_vars


\* Computers and one more that has the name and the hacking difficulty of the
\* first with another value and risk: ("a",3,9,0.1)
AllComputers ==
    Computers \cup {[name |-> <<97>>, hacking_difficulty |-> 3,
                     hacked_value |-> 9, risk_factor |-> 1]}

\* the rest of edit_computer that adds new whatever remove_computer did
edit_computer_add_always(sizes, isizes, si, r, new) ==
    [exc |-> r.exc]
        @@ add_computer(sizes, isizes, r.array, r.count, si, r.record, new)

\* the rest of edit_computer once remove_computer(old) has ended as r: what
\* it raised ends the call, otherwise add_computer(new) follows
edit_computer_add(sizes, isizes, si, r, new) ==
    IF r.exc # NoExc THEN [size_index |-> si] @@ r
    ELSE add_computer(sizes, isizes, r.array, r.count, si, r.record, new)

edit_computer(sizes, isizes, arr, cnt, si, rec, old, new) ==
    edit_computer_add(sizes, isizes, si,
                      remove_computer(isizes, arr, cnt, rec, old), new)

\* group_by_difficulty with one list for every difficulty asked for
group_by_difficulty_all(arr, isizes) ==
    [exc |-> NoExc,
     ret |-> [i \in 1 .. Cardinality(Difficulties) |->
                 computers_with_difficulty(arr, isizes,
                     CHOOSE d \in Difficulties :
                         Cardinality({e \in Difficulties : e < d}) = i - 1).ret]]

\* the loop of group_by_difficulty over the first keys iter_keys() yields
RECURSIVE group_by_difficulty_loop(_, _, _)
group_by_difficulty_loop(arr, isizes, levels) ==
    IF levels = <<>> THEN <<>>
    ELSE <<computers_with_difficulty(arr, isizes, Head(levels)[1]).ret>>
             \o group_by_difficulty_loop(arr, isizes, Tail(levels))

group_by_difficulty(arr, isizes) ==
    [exc |-> NoExc,
     ret |-> group_by_difficulty_loop(arr, isizes, iter_keys(arr, isizes, None).ret)]

EditComputer(old, new) ==
    /\ \E r \in {edit_computer(TABLE_SIZES, internal_sizes, array, count, size_index,
                                record, old, new)} :
          /\ record' = r.record
          /\ array' = r.array
          /\ count' = r.count
          /\ size_index' = r.size_index
          /\ added' = IF r.exc = NoExc THEN (added \ {old}) \cup {new} ELSE added
          /\ raised' = (raised \/ r.exc # NoExc)
          /\ last' = [op |-> "edit_computer", exc |-> r.exc, note |-> "none"]
    /\ UNCHANGED <<ctor, TABLE_SIZES, internal_sizes, shadow>>
    /\ UNCHANGED <<ihtVars, routeVars>>

GroupByDifficulty ==
    /\ LET r == group_by_difficulty(array, internal_sizes)
       IN last' = [op |-> "group_by_difficulty", exc |-> r.exc,
                   note |-> IF r.ret = <<>> THEN "empty" ELSE "none"]
    /\ UNCHANGED <<ctor, TABLE_SIZES, internal_sizes, size_index, array, count, shadow>>
    /\ UNCHANGED <<managerVars, ihtVars, routeVars>>

NextManagerAll ==
    \/ \E computer \in AllComputers : AddComputer(computer)
    \/ \E computer \in AllComputers : RemoveComputer(computer)
    \/ \E old \in AllComputers, new \in AllComputers : EditComputer(old, new)
    \/ \E diff \in Difficulties : ComputersWithDifficulty(diff)
    \/ GroupByDifficulty

SpecManagerAll == InitManager /\ [][NextManagerAll]_vars

----------------------------------------------------------------------------
(* One InfiniteHashTable and its callers. *)

\* the keys asked for: the keys stored, "", "ad", "ac" and "aba"
IhtAsked == IhtKeys \cup {<<>>, <<97, 100>>, <<97, 99>>, <<97, 98, 97>>}

InitIht == InitWith({<<(<<3>>), (<<2>>)>>})

IhtSet(key, value) ==
    /\ iht.count < MaxIhtCount
    /\ LET r == IHT_setitem(iht, key, value, MaxNesting)
       IN /\ iht' = r.t
          /\ ihtShadow' = IF r.exc = NoExc THEN [ihtShadow EXCEPT ![key] = <<value>>]
                          ELSE ihtShadow
          /\ ihtLast' = [op |-> "set", exc |-> r.exc]
    /\ UNCHANGED ihtDeleted
    /\ UNCHANGED <<ctor, TABLE_SIZES, internal_sizes, size_index, array, count, shadow, last>>
    /\ UNCHANGED <<managerVars, routeVars>>

IhtDelete(key) ==
    /\ LET r == IHT_delitem(iht, key)
       IN /\ iht' = r.t
          /\ ihtShadow' = IF r.exc = NoExc THEN [ihtShadow EXCEPT ![key] = None]
                          ELSE ihtShadow
          /\ ihtDeleted' = (ihtDeleted \/ r.exc = NoExc)
          /\ ihtLast' = [op |-> "delete", exc |-> r.exc]
    /\ UNCHANGED <<ctor, TABLE_SIZES, internal_sizes, size_index, array, count, shadow, last>>
    /\ UNCHANGED <<managerVars, routeVars>>

IhtGet(key) ==
    /\ ihtLast' = [op |-> "get", exc |-> IHT_getitem(iht, key).exc]
    /\ UNCHANGED <<iht, ihtShadow, ihtDeleted>>
    /\ UNCHANGED <<ctor, TABLE_SIZES, internal_sizes, size_index, array, count, shadow, last>>
    /\ UNCHANGED <<managerVars, routeVars>>

NextIht ==
    \/ \E key \in IhtKeys, value \in V : IhtSet(key, value)
    \/ \E key \in IhtAsked : IhtDelete(key)
    \/ \E key \in IhtAsked : IhtGet(key)

SpecIht == InitIht /\ [][NextIht]_vars

----------------------------------------------------------------------------
(* Route: a store is None, a RouteSeries <<"series", computer, following>>  *)
(* or a RouteSplit <<"split", top, bottom, following>>; a Route holds one   *)
(* store and is modelled by it.                                             *)

MaxNodes == 4

\* the computers on the routes of the model
RouteComputers == {c \in Computers : c.hacking_difficulty = 3}

RouteSeries(computer, following) == <<"series", computer, following>>

RouteSplit(top, bottom, following) == <<"split", top, bottom, following>>

\* the stores with exactly k series and split nodes
RECURSIVE RoutesOfSize(_)
RoutesOfSize(k) ==
    IF k = 0 THEN {None}
    ELSE {RouteSeries(c, f) : c \in RouteComputers, f \in RoutesOfSize(k - 1)}
         \cup UNION {UNION {{RouteSplit(t, b, f) : t \in RoutesOfSize(i),
                                                   b \in RoutesOfSize(j),
                                                   f \in RoutesOfSize(k - 1 - i - j)}
                            : j \in 0 .. k - 1 - i}
                     : i \in 0 .. k - 1}

Routes == UNION {RoutesOfSize(k) : k \in 0 .. MaxNodes}

RECURSIVE RouteSize(_)
RouteSize(store) ==
    IF store = None THEN 0
    ELSE IF store[1] = "series" THEN 1 + RouteSize(store[3])
    ELSE 1 + RouteSize(store[2]) + RouteSize(store[3]) + RouteSize(store[4])

add_computer_before(store, computer) == RouteSeries(computer, store)

add_empty_branch_before(store) == RouteSplit(None, None, store)

\* _auxiliary_add_all_computers that never comes back to a pending following
RECURSIVE auxiliary_add_all_computers_nopop(_, _, _)
auxiliary_add_all_computers_nopop(curr, list_of_comps, stack_of_nodes) ==
    IF curr = None
    THEN [lst |-> list_of_comps, stk |-> stack_of_nodes]
    ELSE IF curr[1] = "series"
    THEN auxiliary_add_all_computers_nopop(curr[3], Append(list_of_comps, curr[2]),
                                           stack_of_nodes)
    ELSE LET top == auxiliary_add_all_computers_nopop(curr[2], list_of_comps,
                                                      <<curr[4]>> \o stack_of_nodes)
         IN auxiliary_add_all_computers_nopop(curr[3], top.lst, top.stk)

\* the list and the stack of pending followings after the call on curr
RECURSIVE auxiliary_add_all_computers(_, _, _)
auxiliary_add_all_computers(curr, list_of_comps, stack_of_nodes) ==
    IF stack_of_nodes = <<>> /\ curr = None
    THEN [lst |-> list_of_comps, stk |-> stack_of_nodes]
    ELSE IF curr # None /\ curr[1] = "series"
    THEN auxiliary_add_all_computers(curr[3], Append(list_of_comps, curr[2]),
                                     stack_of_nodes)
    ELSE IF curr # None /\ curr[1] = "split"
    THEN LET top == auxiliary_add_all_computers(curr[2], list_of_comps,
                                                <<curr[4]>> \o stack_of_nodes)
         IN auxiliary_add_all_computers(curr[3], top.lst, top.stk)
    ELSE auxiliary_add_all_computers(Head(stack_of_nodes), list_of_comps,
                                     Tail(stack_of_nodes))

add_all_computers(store) == auxiliary_add_all_computers(store, <<>>, <<>>).lst

InitRoute ==
    /\ ctor = <<(<<3>>), (<<2>>)>>
    /\ TABLE_SIZES = ctor[1]
    /\ internal_sizes = ctor[2]
    /\ size_index = 0
    /\ array = EmptyArray(TABLE_SIZES[1])
    /\ count = 0
    /\ shadow = [p \in Pairs |-> None]
    /\ last = [op |-> "init", exc |-> NoExc, note |-> "none"]
    /\ record = <<>>
    /\ added = {}
    /\ raised = FALSE
    /\ iht = NewIHT(0)
    /\ ihtShadow = [k \in IhtKeys |-> None]
    /\ ihtLast = [op |-> "init", exc |-> NoExc]
    /\ ihtDeleted = FALSE
    /\ route \in Routes
    /\ collected = None
    /\ walk = None

AddAllComputers ==
    /\ collected' = <<add_all_computers(route)>>
    /\ UNCHANGED <<route, walk>>
    /\ UNCHANGED <<ctor, TABLE_SIZES, internal_sizes, size_index, array, count, shadow, last>>
    /\ UNCHANGED <<managerVars, ihtVars>>

AddComputerBefore(computer) ==
    /\ RouteSize(route) < MaxNodes
    /\ route' = add_computer_before(route, computer)
    /\ collected' = None
    /\ UNCHANGED walk
    /\ UNCHANGED <<ctor, TABLE_SIZES, internal_sizes, size_index, array, count, shadow, last>>
    /\ UNCHANGED <<managerVars, ihtVars>>

AddEmptyBranchBefore ==
    /\ RouteSize(route) < MaxNodes
    /\ route' = add_empty_branch_before(route)
    /\ collected' = None
    /\ UNCHANGED walk
    /\ UNCHANGED <<ctor, TABLE_SIZES, internal_sizes, size_index, array, count, shadow, last>>
    /\ UNCHANGED <<managerVars, ihtVars>>

NextRoute ==
    \/ AddAllComputers
    \/ \E computer \in RouteComputers : AddComputerBefore(computer)
    \/ AddEmptyBranchBefore

SpecRoute == InitRoute /\ [][NextRoute]_vars


\* the subclasses of VirusType that follow a route
VirusTypes == {"TopVirus", "BottomVirus", "LazyVirus"}

\* select_branch of TopVirus, of BottomVirus and of LazyVirus
select_branch(virus_type, top_branch, bottom_branch) ==
    IF virus_type = "TopVirus" THEN "TOP"
    ELSE IF virus_type = "BottomVirus" THEN "BOTTOM"
    ELSE LET top_route == top_branch # None /\ top_branch[1] = "series"
             bot_route == bottom_branch # None /\ bottom_branch[1] = "series"
         IN IF top_route /\ bot_route
            THEN IF top_branch[2].hacking_difficulty < bottom_branch[2].hacking_difficulty
                 THEN "TOP"
                 ELSE IF top_branch[2].hacking_difficulty
                             > bottom_branch[2].hacking_difficulty
                 THEN "BOTTOM"
                 ELSE "STOP"
            ELSE IF top_route THEN "BOTTOM"
            ELSE "TOP"

\* VirusType.add_computer on the list computers
VirusType_add_computer(computers, computer) == Append(computers, computer)

\* the inner loop of follow_path that pops one pending following at most
follow_path_ended_once(curr, following_nodes) ==
    IF curr = None /\ following_nodes # <<>>
    THEN [curr |-> Head(following_nodes), following_nodes |-> Tail(following_nodes)]
    ELSE [curr |-> curr, following_nodes |-> following_nodes]

\* the inner loop of follow_path: while the store of curr is None, curr becomes
\* the following popped from the stack, until the stack is empty
RECURSIVE follow_path_ended(_, _)
follow_path_ended(curr, following_nodes) ==
    IF curr = None /\ following_nodes # <<>>
    THEN follow_path_ended(Head(following_nodes), Tail(following_nodes))
    ELSE [curr |-> curr, following_nodes |-> following_nodes]

\* one pass of the body of the loop of follow_path, the store of w.curr not
\* being None
follow_path_body(w) ==
    IF w.curr[1] = "split"
    THEN IF select_branch(w.virus_type, w.curr[2], w.curr[3]) = "STOP"
         THEN [w EXCEPT !.following_nodes = <<w.curr[4]>> \o @, !.pc = "returned"]
         ELSE [virus_type |-> w.virus_type, computers |-> w.computers, pc |-> "loop"]
                  @@ follow_path_ended(
                         IF select_branch(w.virus_type, w.curr[2], w.curr[3]) = "TOP"
                         THEN w.curr[2] ELSE w.curr[3],
                         <<w.curr[4]>> \o w.following_nodes)
    ELSE IF w.curr[3] # None
    THEN [w EXCEPT !.computers = VirusType_add_computer(@, w.curr[2]),
                   !.curr = w.curr[3]]
    ELSE IF w.following_nodes = <<>>
    THEN [w EXCEPT !.computers = VirusType_add_computer(@, w.curr[2]),
                   !.pc = "returned"]
    ELSE [virus_type |-> w.virus_type,
          computers |-> VirusType_add_computer(w.computers, w.curr[2]),
          pc |-> "loop"]
             @@ follow_path_ended(Head(w.following_nodes), Tail(w.following_nodes))

\* the test of the loop of follow_path and one pass of its body
follow_path_loop(w) ==
    IF w.curr = None THEN [w EXCEPT !.pc = "returned"] ELSE follow_path_body(w)

\* follow_path is called with a virus that has no computers
FollowPath(virus_type) ==
    /\ walk = None
    /\ walk' = <<[virus_type |-> virus_type, computers |-> <<>>, curr |-> route,
                  following_nodes |-> <<>>, pc |-> "loop"]>>
    /\ UNCHANGED <<route, collected>>
    /\ UNCHANGED <<ctor, TABLE_SIZES, internal_sizes, size_index, array, count, shadow, last>>
    /\ UNCHANGED <<managerVars, ihtVars>>

\* the call of follow_path goes through its loop once, or leaves it
FollowLoop ==
    /\ walk # None
    /\ walk[1].pc = "loop"
    /\ walk' = <<follow_path_loop(walk[1])>>
    /\ UNCHANGED <<route, collected>>
    /\ UNCHANGED <<ctor, TABLE_SIZES, internal_sizes, size_index, array, count, shadow, last>>
    /\ UNCHANGED <<managerVars, ihtVars>>

NextFollow ==
    \/ \E virus_type \in VirusTypes : FollowPath(virus_type)
    \/ FollowLoop

SpecFollow == InitRoute /\ [][NextFollow]_vars

\* a call in its loop goes on: nothing else runs while follow_path does
SpecFollowFair == SpecFollow /\ WF_vars(FollowLoop)

----------------------------------------------------------------------------
(* Properties. *)

\* C1: every pair that was set and not deleted since is returned by get with
\* the value most recently set for it, also after overwrites and resizes.
\* (A set that raises FullError stores nothing and leaves shadow alone.)
RoundTrip ==
    \A p \in Stored :
        LET r == getitem(array, internal_sizes, p[1], p[2])
        IN r.exc = NoExc /\ r.ret = shadow[p]

\* a resize has happened and three pairs under three first keys are stored
RoundTripWitness ==
    /\ table_size(array) > TABLE_SIZES[1]
    /\ Cardinality(Stored) >= 4
    /\ Cardinality(Occupied(array)) >= 3
    /\ \E p \in Stored : shadow[p] = <<2>>

\* C2: a successful delete of a pair makes contains false for it and leaves
\* every other pair that get returned before it returned by get, same value.
DeletionCompleteness ==
    \A p \in K1 \X K2 :
        LET d == delitem(internal_sizes, array, count, p[1], p[2])
        IN d.exc = NoExc =>
             /\ ~contains(d.array, internal_sizes, p[1], p[2]).found
             /\ \A q \in (K1 \X K2) \ {p} :
                   LET before == getitem(array, internal_sizes, q[1], q[2])
                       after == getitem(d.array, internal_sizes, q[1], q[2])
                   IN before.exc = NoExc =>
                        after.exc = NoExc /\ after.ret = before.ret

\* a delete has emptied a nested table and moved an entry in cluster repair,
\* and pairs remain
DeletionCompletenessWitness ==
    /\ last.op = "del" /\ last.exc = NoExc /\ last.note = "repaired"
    /\ Stored # {}

\* C3: len() is the number of occupied top-level slots, which is the number
\* of first keys that have at least one pair.
LenIsOccupied ==
    /\ len(count) = Cardinality(Occupied(array))
    /\ Cardinality(Occupied(array)) = Cardinality({p[1] : p \in Stored})

\* C4: after every set that returns, at most half of the top-level slots are
\* occupied, unless no larger capacity remains in the schedule.
LoadFactorBound ==
    (last.op = "set" /\ last.exc = NoExc) =>
        \/ 2 * Cardinality(Occupied(array)) <= table_size(array)
        \/ ~LargerRemains

\* C5: no slot on the cyclic probe path from the hash of a stored first key
\* to the slot that holds it is empty, and a lookup probe finds that slot.
ProbePathNoGap ==
    \A i \in Occupied(array) :
        LET n == table_size(array)
            h == hash1(array[i][1], n)
            p == linear_probe(array, internal_sizes, array[i][1], None, FALSE)
        IN /\ \A d \in 0 .. ((i - h + n) % n) : array[(h + d) % n] # None
           /\ p.exc = NoExc /\ p.pos1 = i

\* a delete has repaired a cluster and some first key sits off its hash slot
ProbePathNoGapWitness ==
    /\ last.op = "del" /\ last.note = "repaired"
    /\ \E i \in Occupied(array) : hash1(array[i][1], table_size(array)) # i

\* C6: no first key is held by two top-level slots.
NoDuplicateFirstKey ==
    \A i, j \in Occupied(array) : array[i][1] = array[j][1] => i = j

\* a delete has repaired a cluster and two first keys remain
NoDuplicateFirstKeyWitness ==
    /\ last.op = "del" /\ last.note = "repaired"
    /\ Cardinality(Occupied(array)) >= 2

\* C7: no top-level slot holds an empty nested table: the slots hold exactly
\* the first keys that have at least one pair.
NoEmptyNestedTable ==
    /\ \A i \in Occupied(array) : ~LPT_is_empty(array[i][2])
    /\ FirstKeys(array) = {p[1] : p \in Stored}

\* a delete has removed the last pair of a first key and vacated its slot
NoEmptyNestedTableWitness ==
    /\ last.op = "del" /\ last.exc = NoExc /\ last.note \in {"vacated", "repaired"}
    /\ Cardinality(FirstKeys(array)) < Cardinality(K1)

\* the number of times v occurs in the list ret
Occurrences(ret, v) == Cardinality({i \in 1 .. Len(ret) : ret[i] = v})

\* C8: values(k1) is the multiset of the current values of the pairs under k1.
GroupValues ==
    \A key1 \in {p[1] : p \in Stored} :
        LET r == values(array, internal_sizes, key1)
        IN /\ r.exc = NoExc
           /\ Len(r.ret) = Cardinality({p \in Stored : p[1] = key1})
           /\ \A v \in V :
                 Occurrences(r.ret, v) =
                     Cardinality({p \in Stored : p[1] = key1 /\ shadow[p] = <<v>>})

\* values was called when a first key with two pairs sits off its hash slot
\* next to a first key with one pair
GroupValuesWitness ==
    /\ last.op = "values" /\ last.exc = NoExc
    /\ \E i \in Occupied(array) :
          /\ hash1(array[i][1], table_size(array)) # i
          /\ Cardinality({p \in Stored : p[1] = array[i][1]}) = 2
    /\ Cardinality(FirstKeys(array)) >= 2

\* C9: for a pair that is not present, get and delete raise KeyError and
\* contains returns false, and the slot array (with the nested tables),
\* count and capacity are as before.
AbsentPairNotFound ==
    \A p \in (K1 \X K2) \ Stored :
        LET g == getitem(array, internal_sizes, p[1], p[2])
            c == contains(array, internal_sizes, p[1], p[2])
            d == delitem(internal_sizes, array, count, p[1], p[2])
        IN /\ g.exc = "KeyError" /\ g.array = array
           /\ c.exc = NoExc /\ ~c.found /\ c.array = array
           /\ d.exc = "KeyError" /\ d.array = array /\ d.count = count

\* a delete raised KeyError while a pair with the same first key is stored
AbsentPairNotFoundWitness ==
    /\ last.op = "del" /\ last.exc = "KeyError"
    /\ \E p \in Stored, q \in Pairs \ Stored : p[1] = q[1]
    /\ \E q \in Pairs \ Stored : q[1] \notin FirstKeys(array)

\* C10: while a larger capacity remains in the schedule, the insert probe of
\* a first key that is not in the table finds a top-level slot.
FullOnlyWhenExhausted ==
    LargerRemains =>
        \A key1 \in K1 \ FirstKeys(array) :
            linear_probe(array, internal_sizes, key1, None, TRUE).exc # "FullError"

\* C11: a set whose first key is not in the table, made while every
\* top-level slot is occupied, raises FullError after the probe has looked at
\* exactly capacity slots, and leaves the slot array (no nested table is
\* made), the count, the capacity and the size index as they were.
FullTableRejectsNewKey ==
    Occupied(array) = DOMAIN array =>
        \A key1 \in K1 \ FirstKeys(array), key2 \in K2, data \in V :
            LET p == linear_probe(array, internal_sizes, key1, key2, TRUE)
                r == setitem(TABLE_SIZES, internal_sizes, array, count, size_index,
                             key1, key2, data)
            IN /\ p.exc = "FullError" /\ p.scanned = table_size(array)
               /\ r.exc = "FullError"
               /\ r.array = array /\ r.count = count /\ r.size_index = size_index

\* a set of a new first key has just raised FullError on a table whose slots
\* are all occupied
FullTableRejectsNewKeyWitness ==
    /\ last.op = "set" /\ last.exc = "FullError"
    /\ Occupied(array) = DOMAIN array
    /\ K1 \ FirstKeys(array) # {}

\* C12: a resize triggered by a set while no larger capacity remains in the
\* schedule is a no-op: the slot array, the count, the capacity and the size
\* index after it are those the store of the set left.
ExhaustedResizeIsNoOp ==
    \A p \in Pairs, data \in V :
        LET s == setitem_store(internal_sizes, array, count, p[1], p[2], data)
            r == rehash(TABLE_SIZES, internal_sizes, s.array, s.count, size_index)
        IN (s.exc = NoExc /\ 2 * len(s.count) > table_size(s.array) /\ ~LargerRemains)
           => /\ r.exc = NoExc
              /\ r.array = s.array
              /\ r.count = s.count
              /\ table_size(r.array) = table_size(array)
              /\ r.size_index = size_index

\* the slot array arr with every nested table wrapped together with the index
\* of the slot that holds it, which names the object
Tagged(arr) ==
    [i \in DOMAIN arr |->
        IF arr[i] = None THEN None ELSE <<arr[i][1], [id |-> i, table |-> arr[i][2]]>>]

\* the (first key, nested table) entries of the slot array arr
Entries(arr) == {arr[i] : i \in Occupied(arr)}

\* C13: a resize that grows the table only moves entries: the first keys of
\* the new slot array are those of the old one, each first key is paired with
\* the same nested table object (named by its tag) with the same contents, and
\* no entry is lost or doubled.
GrowingResizeMovesEntries ==
    \A p \in Pairs, data \in V :
        LET s == setitem_store(internal_sizes, array, count, p[1], p[2], data)
            old == Tagged(s.array)
            r == rehash(TABLE_SIZES, internal_sizes, old, s.count, size_index)
        IN (/\ s.exc = NoExc
            /\ 2 * len(s.count) > table_size(s.array)
            /\ size_index + 1 < Len(TABLE_SIZES))
           => /\ r.exc = NoExc
              /\ table_size(r.array) > table_size(old)
              /\ FirstKeys(r.array) = FirstKeys(old)
              /\ Entries(r.array) = Entries(old)
              /\ Cardinality(Occupied(r.array)) = Cardinality(Occupied(old))

\* a set has just grown a table that held a first key with two pairs, whose
\* nested table had itself grown, beside another first key
GrowingResizeMovesEntriesWitness ==
    /\ last.op = "set" /\ last.exc = NoExc /\ last.note = "resized"
    /\ Cardinality(Occupied(array)) >= 2
    /\ \E i \in Occupied(array) : array[i][2].count = 2

\* C14: a call of keys, values, iter_keys or iter_values, with the key
\* omitted or given, present or absent, leaves the slot array with its nested
\* tables, the count, the capacity and the size index as they were.
QueriesDoNotMutate ==
    [][last'.op \in {"keys", "values", "iter_keys", "iter_values"}
          => /\ array' = array
             /\ count' = count
             /\ table_size(array') = table_size(array)
             /\ size_index' = size_index]_vars

\* iter_values has just raised KeyError for a first key with no pairs, on a
\* table that holds other first keys and has an empty slot
QueriesDoNotMutateWitness ==
    /\ last.op = "iter_values" /\ last.exc = "KeyError"
    /\ FirstKeys(array) # {}
    /\ Occupied(array) # DOMAIN array

\* the slot of the slot array arr that holds the first key key1
SlotOf(arr, key1) == CHOOSE i \in Occupied(arr) : arr[i][1] = key1

\* C15: keys() with the key omitted returns each first key that has at least
\* one pair exactly once, by ascending index of the slot that holds it.
KeysInSlotOrder ==
    LET r == keys(array, internal_sizes, None) IN
    /\ r.exc = NoExc
    /\ {r.ret[i] : i \in 1 .. Len(r.ret)} = {p[1] : p \in Stored}
    /\ Len(r.ret) = Cardinality({p[1] : p \in Stored})
    /\ \A i, j \in 1 .. Len(r.ret) :
          i < j => SlotOf(array, r.ret[i]) < SlotOf(array, r.ret[j])

\* keys() was called on a table with three first keys, one of them in the last
\* slot and one off its hash slot
KeysInSlotOrderWitness ==
    /\ last.op = "keys" /\ last.exc = NoExc
    /\ Cardinality(FirstKeys(array)) >= 3
    /\ array[table_size(array) - 1] # None
    /\ \E i \in Occupied(array) : hash1(array[i][1], table_size(array)) # i

\* C16: keys(k1) returns exactly the second keys stored under k1, each once;
\* for a first key that has no pairs keys(k1) and values(k1) raise KeyError.
KeysOfFirstKey ==
    \A key1 \in K1 :
        LET r == keys(array, internal_sizes, key1)
            v == values(array, internal_sizes, key1)
            under == {p[2] : p \in {q \in Stored : q[1] = key1}}
        IN IF under # {}
           THEN /\ r.exc = NoExc
                /\ {r.ret[i] : i \in 1 .. Len(r.ret)} = under
                /\ Len(r.ret) = Cardinality(under)
           ELSE /\ r.exc = "KeyError" /\ r.ret = <<>>
                /\ v.exc = "KeyError" /\ v.ret = <<>>

\* keys(k1) has just raised KeyError for a first key with no pairs whose hash
\* slot is occupied, while another first key has two second keys
KeysOfFirstKeyWitness ==
    /\ last.op = "keys" /\ last.exc = "KeyError"
    /\ \E key1 \in K1 \ FirstKeys(array) : array[hash1(key1, table_size(array))] # None
    /\ \E i \in Occupied(array) : array[i][2].count = 2

\* C17: iter_keys(k1) and iter_values(k1) yield the sequences that keys(k1)
\* and values(k1) return, and iter_keys() and iter_values() those of keys()
\* and values().
IteratorsAgreeWithLists ==
    \A key \in FirstKeys(array) \cup {None} :
        LET ik == iter_keys(array, internal_sizes, key)
            k == keys(array, internal_sizes, key)
            iv == iter_values(array, internal_sizes, key)
            v == values(array, internal_sizes, key)
        IN /\ ik.exc = k.exc /\ ik.ret = k.ret
           /\ iv.exc = v.exc /\ iv.ret = v.ret

\* the values of the nested tables of the slots x, x + 1, ... of arr, in order
RECURSIVE ConcatBySlot(_, _)
ConcatBySlot(arr, x) ==
    IF x >= table_size(arr) THEN <<>>
    ELSE IF arr[x] = None THEN ConcatBySlot(arr, x + 1)
    ELSE LPT_values(arr[x][2]) \o ConcatBySlot(arr, x + 1)

\* C18: values() with the key omitted returns the values lists of the nested
\* tables joined by ascending slot index; its length is the number of pairs
\* stored, and each value occurs as often as among the stored pairs.
AllValuesBySlot ==
    LET r == values(array, internal_sizes, None) IN
    /\ r.exc = NoExc
    /\ r.ret = ConcatBySlot(array, 0)
    /\ Len(r.ret) = Cardinality(Stored)
    /\ \A v \in V :
          Occurrences(r.ret, v) = Cardinality({p \in Stored : shadow[p] = <<v>>})

\* values() was called on a table that holds four pairs under three first
\* keys, one of which sits off its hash slot
AllValuesBySlotWitness ==
    /\ last.op = "values" /\ last.exc = NoExc
    /\ Cardinality(Stored) >= 4
    /\ Cardinality(FirstKeys(array)) >= 3
    /\ \E i \in Occupied(array) : hash1(array[i][1], table_size(array)) # i
    /\ {shadow[p] : p \in Stored} = {<<1>>, <<2>>}

\* C19: when the constructor is called without a nested-table schedule, every
\* nested table is made with the built-in schedule, whatever top-level
\* schedule was supplied: its capacity is the built-in capacity at its own
\* size index.
NestedUsesBuiltInSchedule ==
    ctor[2] = None =>
        \A i \in Occupied(array) :
            LET hash_table == array[i][2]
            IN /\ hash_table.size_index < Len(CLASS_TABLE_SIZES)
               /\ ArrayLen(hash_table.array) = CLASS_TABLE_SIZES[hash_table.size_index + 1]

\* C20: the cluster-repair loop of delete terminates from every reachable
\* state, for every pair a caller may delete: it never uses up its fuel, also
\* when the walk wraps around a table all of whose slots were occupied.
RepairTerminates ==
    \A p \in K1 \X K2 :
        delitem(internal_sizes, array, count, p[1], p[2]).exc # "Diverged"

\* a delete has just vacated a slot of a table whose slots were all occupied
\* and has moved another entry; with no other empty slot the walk has gone
\* around the whole array
RepairTerminatesWitness ==
    /\ last.op = "del" /\ last.exc = NoExc /\ last.note = "repaired"
    /\ Cardinality(Occupied(array)) = table_size(array) - 1
    /\ table_size(array) >= 3

\* the slot array after __delitem__ has cleared the slot of first key key1,
\* where the cluster repair starts
Vacated(arr, isizes, key1) ==
    [arr EXCEPT ![linear_probe(arr, isizes, key1, None, FALSE).pos1] = None]

\* the slot the cluster repair of a delete of first key key1 looks at first
RepairStart(arr, isizes, key1) ==
    (linear_probe(arr, isizes, key1, None, FALSE).pos1 + 1) % table_size(arr)

\* C21: no delete raises FullError, and at every iteration of the cluster
\* repair of a delete that empties a nested table, the insert probe of the
\* entry taken out of its slot returns an empty slot.
RepairProbeFindsSlot ==
    /\ \A p \in K1 \X K2 :
          delitem(internal_sizes, array, count, p[1], p[2]).exc # "FullError"
    /\ \A p \in Stored :
          Cardinality({q \in Stored : q[1] = p[1]}) = 1 =>
              \A m \in 0 .. RepairFuel(array) :
                  LET mid == repair_loop(Vacated(array, internal_sizes, p[1]), internal_sizes,
                                         RepairStart(array, internal_sizes, p[1]), m)
                      curr_pos == (RepairStart(array, internal_sizes, p[1]) + m) % table_size(array)
                      arr1 == [mid.array EXCEPT ![curr_pos] = None]
                      newpos == linear_probe(arr1, internal_sizes, mid.array[curr_pos][1],
                                             None, TRUE)
                  IN mid.exc = "Diverged" =>
                        newpos.exc = NoExc /\ arr1[newpos.pos1] = None

\* a delete has just emptied a nested table of a table of capacity 5 and its
\* cluster repair has moved another entry
RepairProbeFindsSlotWitness ==
    /\ last.op = "del" /\ last.exc = NoExc /\ last.note = "repaired"
    /\ table_size(array) >= 5
    /\ Cardinality(Occupied(array)) >= 2

\* C22: across sets and deletes the top-level capacity and the size index
\* never decrease, and a delete, also one that empties the table, leaves the
\* capacity as it was.
CapacityNeverShrinks ==
    [][/\ table_size(array') >= table_size(array)
       /\ size_index' >= size_index
       /\ last'.op = "del" => table_size(array') = table_size(array)]_vars

\* a delete has just emptied a table that had grown beyond its first capacity
CapacityNeverShrinksWitness ==
    /\ last.op = "del" /\ last.exc = NoExc
    /\ Occupied(array) = {}
    /\ table_size(array) > TABLE_SIZES[1]
    /\ size_index > 0

\* C23: computers_with_difficulty(d) returns exactly the computers added and
\* not removed since whose hacking difficulty is d, each once, and returns
\* the empty list without raising when there is none.  (The first key <<d>>
\* hashes as the manager's hash1 does.)
DifficultyQuery ==
    \A diff \in Difficulties :
        LET r == computers_with_difficulty(array, internal_sizes, diff)
            expected == {c \in added : c.hacking_difficulty = diff}
        IN /\ r.exc = NoExc
           /\ {r.ret[i] : i \in 1 .. Len(r.ret)} = expected
           /\ Len(r.ret) = Cardinality(expected)
           /\ hash1(<<diff>>, table_size(array)) = manager_hash1(diff, table_size(array))

\* computers_with_difficulty has just returned the empty list for a
\* difficulty whose hash slot holds another difficulty, while some difficulty
\* has two computers and some computer has been added twice
DifficultyQueryWitness ==
    /\ last.op = "computers_with_difficulty" /\ last.note = "empty"
    /\ \E diff \in Difficulties :
          /\ \A c \in added : c.hacking_difficulty # diff
          /\ array[manager_hash1(diff, table_size(array))] # None
    /\ \E c1 \in added, c2 \in added :
          c1 # c2 /\ c1.hacking_difficulty = c2.hacking_difficulty
    /\ Len(record) > Cardinality(added)

\* the keys set and not deleted since
IhtStored == {k \in IhtKeys : ihtShadow[k] # None}

\* the sequence s is in strictly ascending lexicographic order
Ascending(s) == \A i, j \in 1 .. Len(s) : i < j => StrLess(s[i], s[j])

\* C24: sort_keys returns every key that was set and not deleted since, each
\* once, in lexicographically ascending order.
SortKeysListsStoredKeys ==
    LET s == IHT_sort_keys(iht)
    IN /\ {s[i] : i \in 1 .. Len(s)} = IhtStored
       /\ Len(s) = Cardinality(IhtStored)
       /\ Ascending(s)

\* sort_keys is right as long as no delete has returned
SortKeysBeforeDeletes == ~ihtDeleted => SortKeysListsStoredKeys

\* C25: as long as only sets have changed the table, get returns for each
\* stored key the value it was set to, and get_location, get and delete raise
\* KeyError for every key that is not stored, the table staying as it was.
SetsThenGet ==
    ~ihtDeleted =>
        \A k \in IhtAsked :
            IF k \in IhtStored
            THEN /\ IHT_getitem(iht, k) = [exc |-> NoExc, ret |-> ihtShadow[k]]
                 /\ IHT_get_location(iht, k).exc = NoExc
            ELSE /\ IHT_get_location(iht, k).exc = "KeyError"
                 /\ IHT_getitem(iht, k).exc = "KeyError"
                 /\ IHT_delitem(iht, k) = [exc |-> "KeyError", t |-> iht]

\* all five keys are stored, no delete has returned, and a delete of a key
\* that is not stored has just raised KeyError
SetsThenGetWitness ==
    /\ ~ihtDeleted
    /\ IhtStored = IhtKeys
    /\ ihtLast = [op |-> "delete", exc |-> "KeyError"]

\* how often the computer c occurs in the store
RECURSIVE OnRoute(_, _)
OnRoute(store, c) ==
    IF store = None THEN 0
    ELSE IF store[1] = "series" THEN (IF store[2] = c THEN 1 ELSE 0) + OnRoute(store[3], c)
    ELSE OnRoute(store[2], c) + OnRoute(store[3], c) + OnRoute(store[4], c)

\* C26: the list add_all_computers returned holds every computer as often as
\* it occurs in the route, in series nodes, both branches of every split and
\* every following route.
AllComputersOnce ==
    collected # None =>
        \A c \in RouteComputers :
            Occurrences(collected[1], c) = OnRoute(route, c)

\* add_all_computers has returned for a split in the top branch of a split,
\* both with a computer in their following route
AllComputersOnceWitness ==
    /\ collected # None
    /\ route # None /\ route[1] = "split" /\ route[4] # None
    /\ route[2] # None /\ route[2][1] = "split" /\ route[2][4] # None
    /\ Len(collected[1]) = 2

\* C27: a set of a pair whose first key is present leaves len() and the
\* capacity as they were and every first key in its slot; only the nested
\* table of that first key may differ afterwards.
SetUnderPresentKey ==
    \A key1 \in FirstKeys(array), key2 \in K2, data \in V :
        LET r == setitem(TABLE_SIZES, internal_sizes, array, count, size_index,
                         key1, key2, data)
        IN /\ len(r.count) = len(count)
           /\ table_size(r.array) = table_size(array)
           /\ \A i \in DOMAIN array :
                 IF array[i] # None /\ array[i][1] = key1
                 THEN r.array[i] # None /\ r.array[i][1] = key1
                 ELSE r.array[i] = array[i]

\* a set has added a second pair under a first key that shares the table
\* with another first key, and the table was not resized
SetUnderPresentKeyWitness ==
    /\ last = [op |-> "set", exc |-> NoExc, note |-> "none"]
    /\ \E p \in Stored, q \in Stored : p[1] = q[1] /\ p[2] # q[2]
    /\ Cardinality(FirstKeys(array)) >= 2

\* the second keys stored under the first key key1, from the nested table
SecondKeys(arr, isizes, key1) ==
    LET r == keys(arr, isizes, key1)
    IN IF r.exc # NoExc THEN {} ELSE {r.ret[i] : i \in 1 .. Len(r.ret)}

\* C28: a delete of one of several pairs of a first key changes no top-level
\* slot but for the content of that key's nested table, leaves count and the
\* capacity as they were and moves no entry.
DeleteLeavingNestedNonEmpty ==
    \A key1 \in K1, key2 \in K2 :
        (/\ key2 \in SecondKeys(array, internal_sizes, key1)
         /\ SecondKeys(array, internal_sizes, key1) # {key2}) =>
            LET r == delitem(internal_sizes, array, count, key1, key2)
            IN /\ r.exc = NoExc
               /\ r.count = count
               /\ table_size(r.array) = table_size(array)
               /\ \A i \in DOMAIN array :
                     IF array[i] # None /\ array[i][1] = key1
                     THEN r.array[i] # None /\ r.array[i][1] = key1
                     ELSE r.array[i] = array[i]
               /\ SecondKeys(r.array, internal_sizes, key1)
                      = SecondKeys(array, internal_sizes, key1) \ {key2}

\* a delete has returned without vacating a slot, next to other first keys
DeleteLeavingNestedNonEmptyWitness ==
    /\ last = [op |-> "del", exc |-> NoExc, note |-> "none"]
    /\ Cardinality(FirstKeys(array)) >= 3

\* the slots of the run of occupied slots that follows slot v cyclically, up
\* to the first empty slot
RunAfter(arr, v) ==
    {i \in DOMAIN arr :
        /\ i # v
        /\ \A j \in 1 .. ((i - v + table_size(arr)) % table_size(arr)) :
              arr[(v + j) % table_size(arr)] # None}

\* C29: a delete of the only pair of a first key decrements count by one,
\* vacates or refills the slot of that key, and leaves every entry outside
\* the run of occupied slots after that slot where it was.
DeleteEmptyingNested ==
    \A key1 \in K1, key2 \in K2 :
        SecondKeys(array, internal_sizes, key1) = {key2} =>
            LET r == delitem(internal_sizes, array, count, key1, key2)
                v == SlotOf(array, key1)
            IN /\ r.exc = NoExc
               /\ r.count = count - 1
               /\ \A i \in DOMAIN array \ ({v} \cup RunAfter(array, v)) :
                     r.array[i] = array[i]
               /\ FirstKeys(r.array) = FirstKeys(array) \ {key1}

\* a delete has vacated a slot and re-seated an entry of the run after it,
\* and the table holds an entry with an empty slot on either side
DeleteEmptyingNestedWitness ==
    /\ last = [op |-> "del", exc |-> NoExc, note |-> "repaired"]
    /\ \E i \in Occupied(array) :
          /\ array[(i + 1) % table_size(array)] = None
          /\ array[(i + table_size(array) - 1) % table_size(array)] = None
    /\ Cardinality(Occupied(array)) >= 2

\* no two slots of the tagged slot array arr hold the same nested table
NoSharedTable(arr) ==
    \A i, j \in Occupied(arr) : i # j => arr[i][2].id # arr[j][2].id

\* the slot array old_array as far as the loop of _rehash has read it after n
\* slots
ReadSoFar(old_array, n) ==
    [i \in DOMAIN old_array |-> IF i < n THEN old_array[i] ELSE None]

\* C30: with the nested tables of a reachable state named slot by slot, no
\* nested table is held by two slots after any number of iterations of the
\* cluster repair of a delete that vacates a slot, nor after any number of
\* iterations of the loop of a resize.
NestedTablesNotShared ==
    /\ \A key1 \in FirstKeys(array) :
          \A m \in 0 .. table_size(array) :
              NoSharedTable(repair_loop(Tagged(Vacated(array, internal_sizes, key1)),
                                        internal_sizes,
                                        RepairStart(array, internal_sizes, key1), m).array)
    /\ \A p \in Pairs, data \in V :
          LET s == setitem_store(internal_sizes, array, count, p[1], p[2], data)
          IN (/\ s.exc = NoExc
              /\ 2 * len(s.count) > table_size(s.array)
              /\ size_index + 1 < Len(TABLE_SIZES))
             => \A n \in 0 .. table_size(s.array) :
                    NoSharedTable(rehash_loop(EmptyArray(TABLE_SIZES[size_index + 2]),
                                              internal_sizes,
                                              ReadSoFar(Tagged(s.array), n), 0).array)

\* a cluster repair has re-seated an entry in a table that was resized before
NestedTablesNotSharedWitness ==
    /\ last = [op |-> "del", exc |-> NoExc, note |-> "repaired"]
    /\ table_size(array) > TABLE_SIZES[1]
    /\ Cardinality(Occupied(array)) >= 2

\* the computers in the organiser's record, and the values the index holds
InRecord == {record[i] : i \in 1 .. Len(record)}

InIndex ==
    LET vs == values(array, internal_sizes, None).ret
    IN {vs[i] : i \in 1 .. Len(vs)}

\* C31: as long as no call of add_computer, remove_computer or edit_computer
\* has raised, the organiser's record and the index hold the same set of
\* computers: a computer is in the record exactly when it is the value the
\* index holds under its (hacking_difficulty, name).
RecordMatchesIndex ==
    ~raised =>
        /\ InRecord = InIndex
        /\ \A c \in AllComputers :
               c \in InRecord <=>
                   LET g == getitem(array, internal_sizes,
                                    <<c.hacking_difficulty>>, c.name)
                   IN g.exc = NoExc /\ g.ret = <<c>>

\* the computers of the list lst
ListSet(lst) == {lst[j] : j \in 1 .. Len(lst)}

\* C32: group_by_difficulty returns one list for each hacking difficulty that
\* has a computer in the index and no other list: no list is empty or holds a
\* computer twice, the list of a difficulty holds the index's computers of that
\* difficulty, the lists are pairwise disjoint and ordered by the top-level
\* slot that holds their difficulty, and together they hold every computer of
\* the index.
GroupsByDifficulty ==
    \A r \in {group_by_difficulty(array, internal_sizes)}, index \in {InIndex} :
        /\ r.exc = NoExc
        /\ Len(r.ret) = Cardinality({c.hacking_difficulty : c \in index})
        /\ \A i \in 1 .. Len(r.ret) :
               /\ r.ret[i] # <<>>
               /\ Len(r.ret[i]) = Cardinality(ListSet(r.ret[i]))
               /\ ListSet(r.ret[i]) =
                      {c \in index :
                           c.hacking_difficulty = r.ret[i][1].hacking_difficulty}
        /\ \A i \in 1 .. Len(r.ret), j \in 1 .. Len(r.ret) :
               i < j =>
                   /\ ListSet(r.ret[i]) \cap ListSet(r.ret[j]) = {}
                   /\ SlotOf(array, <<r.ret[i][1].hacking_difficulty>>)
                          < SlotOf(array, <<r.ret[j][1].hacking_difficulty>>)
        /\ UNION {ListSet(r.ret[i]) : i \in 1 .. Len(r.ret)} = index

\* group_by_difficulty has returned two lists or more, one of two computers,
\* and a list of a larger difficulty comes before one of a smaller
GroupsByDifficultyWitness ==
    /\ last.op = "group_by_difficulty"
    /\ \E g \in {group_by_difficulty(array, internal_sizes).ret} :
           /\ \E i \in 1 .. Len(g) : Len(g[i]) >= 2
           /\ \E i \in 1 .. Len(g), j \in 1 .. Len(g) :
                  /\ i < j
                  /\ g[i][1].hacking_difficulty > g[j][1].hacking_difficulty

\* C33: remove_computer of a computer that is neither in the record nor a
\* value of the index raises and leaves the record, the slot array and count
\* as they were; edit_computer(old, new) with such an old raises and leaves
\* them as they were too, so that new is added to neither.
RemoveAbsentRaises ==
    \A old \in AllComputers :
        (old \notin InRecord /\ old \notin InIndex) =>
            /\ \A r \in {remove_computer(internal_sizes, array, count, record, old)} :
                   /\ r.exc # NoExc
                   /\ r.record = record
                   /\ r.array = array
                   /\ r.count = count
            /\ \A new \in AllComputers :
                   \A e \in {edit_computer(TABLE_SIZES, internal_sizes, array, count,
                                           size_index, record, old, new)} :
                       /\ e.exc # NoExc
                       /\ e.record = record
                       /\ e.array = array
                       /\ e.count = count
                       /\ e.size_index = size_index

\* edit_computer(old, new) has raised ValueError on a manager that holds two
\* computers or more, the same in the record and in the index, and not all
RemoveAbsentRaisesWitness ==
    /\ last.op = "edit_computer"
    /\ last.exc = "ValueError"
    /\ record # <<>>
    /\ InRecord = InIndex
    /\ InRecord # AllComputers
    /\ Cardinality(InRecord) >= 2

\* get returns for every stored key of the table t the value it was set to
IhtRetrievable(t, stored) ==
    \A k \in stored : IHT_getitem(t, k) = [exc |-> NoExc, ret |-> ihtShadow[k]]

\* C34: a delete of a stored key, on a table from which every stored key is
\* retrievable, returns and leaves every other stored key retrievable with the
\* value it was set to.
DeleteKeepsOtherKeys ==
    IhtRetrievable(iht, IhtStored) =>
        \A key \in IhtStored :
            LET d == IHT_delitem(iht, key)
            IN /\ d.exc = NoExc
               /\ IhtRetrievable(d.t, IhtStored \ {key})

\* the keys get retrieves from the table t
IhtGettable(t) == {k \in IhtAsked : IHT_contains(t, k)}

\* C35: len() of the table is the number of keys that get retrieves.
LenCountsRetrievable == IHT_len(iht) = Cardinality(IhtGettable(iht))

\* the keys set and one more, "{", whose character code is that of "a" plus 26
IhtCongruent == IhtKeys \cup {<<123>>}

\* C36: a set of any key on any table returns, having nested finitely many
\* levels, and get then returns the value set, whether the key is stored
\* already or shares the character codes modulo 26 of a stored key.
SetReturnsAndStores ==
    \A key \in IhtCongruent, value \in V :
        LET r == IHT_setitem(iht, key, value, MaxNesting)
        IN /\ r.exc = NoExc
           /\ IHT_getitem(r.t, key) = [exc |-> NoExc, ret |-> <<value>>]

\* the computers on the path the decisions of the virus fix from store on, and
\* whether the virus stopped there
RECURSIVE PathOf(_, _)
PathOf(store, virus_type) ==
    IF store = None THEN [lst |-> <<>>, stopped |-> FALSE]
    ELSE IF store[1] = "series"
    THEN LET f == PathOf(store[3], virus_type)
         IN [lst |-> <<store[2]>> \o f.lst, stopped |-> f.stopped]
    ELSE LET d == select_branch(virus_type, store[2], store[3]) IN
         IF d = "STOP" THEN [lst |-> <<>>, stopped |-> TRUE]
         ELSE LET b == PathOf(IF d = "TOP" THEN store[2] ELSE store[3], virus_type)
                  f == PathOf(store[4], virus_type)
              IN IF b.stopped THEN b
                 ELSE [lst |-> b.lst \o f.lst, stopped |-> f.stopped]

\* the list s is the start of the list t
IsPrefix(s, t) == Len(s) <= Len(t) /\ s = SubSeq(t, 1, Len(s))

\* C37: the computers follow_path has added to the virus are at every moment
\* the start of the path the virus's decisions fix through the route (a series
\* computer once, at a split the chosen branch and then the split's following,
\* nothing after a STOP); the call returns, and the virus then holds exactly
\* that path.
FollowPathFollows ==
    /\ [](walk # None =>
              /\ IsPrefix(walk[1].computers, PathOf(route, walk[1].virus_type).lst)
              /\ walk[1].pc = "returned" =>
                     walk[1].computers = PathOf(route, walk[1].virus_type).lst)
    /\ (walk # None) ~> (walk # None /\ walk[1].pc = "returned")

\* follow_path has returned from a route whose first node is a split with a
\* split as the chosen branch, and the virus holds computers of two followings
FollowPathFollowsWitness ==
    /\ walk # None
    /\ walk[1].pc = "returned"
    /\ walk[1].virus_type = "TopVirus"
    /\ route # None /\ route[1] = "split"
    /\ route[2] # None /\ route[2][1] = "split"
    /\ route[2][4] # None
    /\ route[4] # None
    /\ Len(walk[1].computers) >= 2

\* the slots from the hash position of key1 up to pos, pos left out, in the
\* order the probe visits them
ProbePath(arr, key1, pos) ==
    LET size == table_size(arr)
        h == hash1(key1, size)
    IN {(h + i) % size : i \in 0 .. ((pos - h + size) % size) - 1}

\* C38: a probe with is_insert true and no second key leaves the slot array
\* as it is, makes no nested table, and returns the slot that holds key1 or
\* else the first empty slot on the probe path, every slot before it holding
\* another first key; a probe of any kind changes the slot array only with
\* is_insert true and a second key, by putting a new nested table for key1
\* into one empty slot.
ProbeWithoutSecondKey ==
    /\ \A key1 \in K1 :
           LET p == linear_probe(array, internal_sizes, key1, None, TRUE)
           IN /\ p.array = array
              /\ p.exc \in {NoExc, "FullError"}
              /\ p.exc = NoExc =>
                     /\ p.pos1 \in DOMAIN array
                     /\ array[p.pos1] = None \/ array[p.pos1][1] = key1
                     /\ \A i \in ProbePath(array, key1, p.pos1) :
                            array[i] # None /\ array[i][1] # key1
              /\ p.exc = "FullError" =>
                     \A i \in DOMAIN array : array[i] # None /\ array[i][1] # key1
    /\ \A key1 \in K1, key2 \in K2 \cup {None}, is_insert \in BOOLEAN :
           LET p == linear_probe(array, internal_sizes, key1, key2, is_insert)
           IN p.array # array =>
                  /\ is_insert
                  /\ key2 # None
                  /\ array[p.pos1] = None
                  /\ p.array = [array EXCEPT ![p.pos1] = <<key1, NewLPT(internal_sizes)>>]

\* a resize has just re-seated the first keys by probes without a second key,
\* and the probe for a first key that is not stored starts at an occupied slot
ProbeWithoutSecondKeyWitness ==
    /\ last.note = "resized"
    /\ \E key1 \in K1 \ FirstKeys(array) :
           /\ array[hash1(key1, table_size(array))] # None
           /\ linear_probe(array, internal_sizes, key1, None, TRUE).exc = NoExc

====
